---- MODULE Spec2Model ----
(***************************************************************************)
(* A model of the YouTube transcription API server (src/main.py): the      *)
(* retry coordinators fetch_with_retry / list_with_retry and the segment   *)
(* pipeline apply_segment_filters.                                         *)
(*                                                                         *)
(* Times are integers in thousandths of a second; a value that the code    *)
(* has rounded to 2 decimals is a multiple of 10.  Error messages are      *)
(* strings, lowercased and searched character by character as the code     *)
(* does with str(e).lower() and the `in` operator.                         *)
(***************************************************************************)
EXTENDS Integers, Sequences, FiniteSets, TLC

VARIABLES
    \* ---- one call of fetch_with_retry / list_with_retry ----
    op,               \* "fetch" (fetch_with_retry) or "list" (list_with_retry)
    api,              \* the local variable `api`: the client the next attempt uses
    languages,        \* Optional[List[str]] argument of fetch_with_retry
    max_retries,      \* the max_retries argument
    attempt,          \* the loop variable `attempt`
    pc,               \* "loop", "waiting" (a call to the source is in flight), "returned", "raised"
    calls,            \* history: every call made to the transcript source, in order
    outcome,          \* what the coordinator returned or raised
    nextId,           \* number of YouTubeTranscriptApi objects constructed so far
    \* ---- one call of apply_segment_filters ----
    segments,         \* the `segments` argument
    limit,            \* Optional[int]
    merge_segments,   \* Optional[int]
    max_duration,     \* Optional[float], in thousandths of a second
    sample_rate,      \* Optional[int]
    query_order,      \* the order in which the request gave the four parameters
    filtered_segments,\* the local variable `filtered_segments`
    fpc,              \* the stage to run next, named by its parameter; "done"; "idle"
    stages,           \* history: each stage run so far, with filtered_segments after it
    runs,             \* history: the results of the calls of apply_segment_filters made before
    \* ---- the loop of get_segmented_transcript that builds the response segments ----
    transcript,       \* the fetched transcript: raw segments {text, start, duration}
    bpc,              \* "loop", "built", or "idle"
    \* ---- one call of handle_transcript_errors ----
    exc,              \* the argument e: an exception, with its type and str(e)
    video_id,         \* the argument video_id
    http_exc,         \* the HTTPException returned; status_code 0 before the call
    \* ---- the environment and one call of get_youtube_api ----
    env,              \* os.environ: API_TOKEN and the BRIGHTDATA_* settings, each unset or a string
    client,           \* the YouTubeTranscriptApi returned by get_youtube_api
    proxy_config,     \* the GenericProxyConfig the returned client holds, if any
    session_ids,      \* the values generate_session_id has returned, in order
    proxy_error,      \* TRUE when building the proxy configuration raised
    gpc,              \* "idle", "call", "returned"
    \* ---- one HTTP request, from its arrival to its response ----
    request,          \* the endpoint, the Authorization credentials and the query parameters
    rpc,              \* where the request is: "idle", "received", "handler", "listing",
                      \* "find", "find_base", "translate", "translated_fetch", "fetching", "done"
    language_list,    \* the endpoint's language_list
    raised,           \* the exception that left the endpoint's try body, if any
    response,         \* the response sent to the client
    \* ---- requests to /transcript/available served concurrently ----
    reqs,             \* per request: its position, its locals and what the source answered it
    actor,            \* the request that took the last step
    \* ---- the transcript a request selects and the transcript it fetches ----
    listing,          \* the transcripts of the video, in the order the listing yields them
    selection,        \* the request's language_list and translate_to
    transcript_metadata,  \* the transcript the response takes its metadata from
    fetched,          \* the transcript whose segments the response carries
    spc               \* "idle", "listed", "selected", "done", "error"

retryVars == <<op, api, languages, max_retries, attempt, pc, calls, outcome, nextId>>
filterVars == <<segments, limit, merge_segments, max_duration, sample_rate,
                query_order, filtered_segments, fpc, stages, runs>>
buildVars == <<transcript, bpc>>
classifyVars == <<exc, video_id, http_exc>>
proxyVars == <<env, client, proxy_config, session_ids, proxy_error, gpc>>
requestVars == <<request, rpc, language_list, raised, response>>
concurrentVars == <<reqs, actor>>
selectVars == <<listing, selection, transcript_metadata, fetched, spc>>
vars == <<retryVars, filterVars, buildVars, classifyVars, proxyVars, requestVars, concurrentVars, selectVars>>

\* the variables a call of one function leaves alone
notRetryVars == <<filterVars, buildVars, classifyVars, proxyVars, requestVars, concurrentVars, selectVars>>
notFilterVars == <<retryVars, buildVars, classifyVars, proxyVars, requestVars, concurrentVars, selectVars>>

(***************************************************************************)
(* Bounds of the model.                                                    *)
(***************************************************************************)
MaxRetries == 2
MaxLen == 3
MaxParam == 3
MaxTranscript == 7
MaxReapply == 1
MaxRaw == 2
MaxClients == 2

(***************************************************************************)
(* Optional values (Python's None).                                        *)
(***************************************************************************)
None == [some |-> FALSE, val |-> 0]
Some(v) == [some |-> TRUE, val |-> v]
NoLanguages == [some |-> FALSE, val |-> <<>>]

Min(a, b) == IF a < b THEN a ELSE b
Max(a, b) == IF a > b THEN a ELSE b
Last(s) == s[Len(s)]

(***************************************************************************)
(* Strings: str.lower() and the substring test `needle in haystack`.       *)
(***************************************************************************)
LowerChar(c) ==
    CASE c = "A" -> "a" [] c = "B" -> "b" [] c = "C" -> "c" [] c = "D" -> "d"
      [] c = "E" -> "e" [] c = "F" -> "f" [] c = "G" -> "g" [] c = "H" -> "h"
      [] c = "I" -> "i" [] c = "J" -> "j" [] c = "K" -> "k" [] c = "L" -> "l"
      [] c = "M" -> "m" [] c = "N" -> "n" [] c = "O" -> "o" [] c = "P" -> "p"
      [] c = "Q" -> "q" [] c = "R" -> "r" [] c = "S" -> "s" [] c = "T" -> "t"
      [] c = "U" -> "u" [] c = "V" -> "v" [] c = "W" -> "w" [] c = "X" -> "x"
      [] c = "Y" -> "y" [] c = "Z" -> "z" [] OTHER -> c

RECURSIVE Lower(_)
Lower(s) ==
    IF Len(s) = 0 THEN ""
    ELSE LowerChar(SubSeq(s, 1, 1)) \o Lower(SubSeq(s, 2, Len(s)))

Contains(haystack, needle) ==
    \E i \in 1..(Len(haystack) - Len(needle) + 1) :
        SubSeq(haystack, i, i + Len(needle) - 1) = needle

(***************************************************************************)
(* The external transcript source: what one call can return or raise.      *)
(***************************************************************************)
Messages ==
    { "HTTPSConnectionPool: Max retries exceeded with url",
      "Connection TIMEOUT",
      "Unable to connect to Proxy",
      "Read timed out.",
      "Video unavailable",
      "429 Too Many Requests" }

SourceErrorTypes == {"Exception", "TranscriptsDisabled"}

SourceResults == {"transcript_a", "transcript_b"}

NoError == [type |-> "", msg |-> "", id |-> 0]

\* The exception object that call number n raises: n is its identity.
SourceError(t, m, n) == [type |-> t, msg |-> m, id |-> n]

LanguageChoices == {NoLanguages, [some |-> TRUE, val |-> <<>>], [some |-> TRUE, val |-> <<"en">>]}

ClientKinds == {"proxy", "direct"}

\* YouTubeTranscriptApi(): a new client without proxy configuration.
DirectClient(id) == [kind |-> "direct", id |-> id]

(***************************************************************************)
(* fetch_with_retry / list_with_retry                                      *)
(***************************************************************************)
\* `attempt` is produced by range(max_retries + 1)
InRange(a, n) == a < n + 1

\* a retry counter that is not advanced
SameAttempt(a) == a

\* the for loop's next value of `attempt`
NextAttempt(a) == a + 1

\* the signals searched in str(e) without .lower()
RetryableCaseSensitive(msg) ==
    \/ Contains(msg, "max retries")
    \/ Contains(msg, "timeout")
    \/ Contains(msg, "proxy")

\* "max retries" in error_str or "timeout" in error_str or "proxy" in error_str,
\* with error_str = str(e).lower()
Retryable(msg) ==
    LET error_str == Lower(msg)
    IN  \/ Contains(error_str, "max retries")
        \/ Contains(error_str, "timeout")
        \/ Contains(error_str, "proxy")

\* a retry of every error while attempts remain
ShouldRetryAnyError(a, n, msg) == a < n

\* a retry after the last attempt too
ShouldRetryOffByOne(a, n, msg) == a <= n /\ Retryable(msg)

\* the condition of the except branch that retries
ShouldRetry(a, n, msg) == a < n /\ Retryable(msg)

\* the failing client kept for the next attempt
KeptApi(current, id) == current

\* a client of the other kind than the failing one
RebuiltApiOtherKind(current, id) ==
    [kind |-> IF current.kind = "direct" THEN "proxy" ELSE "direct", id |-> id]

\* api = YouTubeTranscriptApi() in the except branch
RebuiltApi(current, id) == DirectClient(id)

\* raise e
Reraised(e) == e

\* return api.fetch(...) / return api.list(...)
Returned(r) == r

\* the arguments of the call to the source: languages are passed only when truthy
CallArgs(o, langs) ==
    IF o = "fetch" /\ langs.some /\ Len(langs.val) > 0
    THEN [method |-> o, languages |-> langs]
    ELSE [method |-> o, languages |-> NoLanguages]

RetryStart ==
    /\ op \in {"fetch", "list"}
    /\ api \in [kind : ClientKinds, id : {0}]
    /\ languages \in (IF op = "fetch" THEN LanguageChoices ELSE {NoLanguages})
    /\ max_retries \in (0 - 1)..MaxRetries
    /\ attempt = 0
    /\ pc = "loop"
    /\ calls = <<>>
    /\ outcome = [kind |-> "none", val |-> "", err |-> NoError]
    /\ nextId = 1

\* try: api.fetch(video_id, ...) / api.list(video_id) is invoked
CallSource ==
    /\ pc = "loop"
    /\ InRange(attempt, max_retries)
    /\ calls' = Append(calls, [client |-> api, args |-> CallArgs(op, languages),
                               attempt |-> attempt,
                               st |-> "pending", val |-> "", err |-> NoError])
    /\ pc' = "waiting"
    /\ UNCHANGED <<op, api, languages, max_retries, attempt, outcome, nextId>>

\* the call returns r: the coordinator returns it
SourceReturns(r) ==
    /\ pc = "waiting"
    /\ calls' = [calls EXCEPT ![Len(calls)].st = "ok", ![Len(calls)].val = r]
    /\ outcome' = [kind |-> "return", val |-> Returned(r), err |-> NoError]
    /\ pc' = "returned"
    /\ UNCHANGED <<op, api, languages, max_retries, attempt, nextId>>

\* the call raises e: the except branch either rebuilds the client and goes on
\* with the next attempt, or raises e
SourceRaises(t, m) ==
    /\ pc = "waiting"
    /\ LET e == SourceError(t, m, Len(calls))
       IN  /\ calls' = [calls EXCEPT ![Len(calls)].st = "err", ![Len(calls)].err = e]
           /\ IF ShouldRetry(attempt, max_retries, e.msg)
              THEN /\ api' = RebuiltApi(api, nextId)
                   /\ nextId' = nextId + 1
                   /\ attempt' = NextAttempt(attempt)
                   /\ pc' = "loop"
                   /\ UNCHANGED outcome
              ELSE /\ outcome' = [kind |-> "raise", val |-> "", err |-> Reraised(e)]
                   /\ pc' = "raised"
                   /\ UNCHANGED <<api, nextId, attempt>>
    /\ UNCHANGED <<op, languages, max_retries>>

\* the loop ends without a return or a raise: raise Exception("All retry attempts failed")
LoopExhausted ==
    /\ pc = "loop"
    /\ ~InRange(attempt, max_retries)
    /\ outcome' = [kind |-> "raise", val |-> "",
                   err |-> [type |-> "Exception", msg |-> "All retry attempts failed", id |-> 0]]
    /\ pc' = "raised"
    /\ UNCHANGED <<op, api, languages, max_retries, attempt, calls, nextId>>

NoHTTPException == [status_code |-> 0, detail |-> ""]

\* a GenericProxyConfig, and its absence
ProxyConfig(http, https) == [set |-> TRUE, http_url |-> http, https_url |-> https]
NoProxyConfig == [set |-> FALSE, http_url |-> "", https_url |-> ""]

\* an environment variable: unset, or set to a string
Unset == [some |-> FALSE, val |-> ""]
SetTo(v) == [some |-> TRUE, val |-> v]

\* an environment with no variable set
EmptyEnv ==
    [API_TOKEN |-> Unset, BRIGHTDATA_USERNAME |-> Unset,
     BRIGHTDATA_PASSWORD |-> Unset, BRIGHTDATA_ENDPOINT |-> Unset]

NoRequest ==
    [endpoint |-> "none", credentials |-> Unset, languages |-> Unset, translate_to |-> Unset,
     separator |-> "", limit |-> None, merge_segments |-> None, max_duration |-> None,
     sample_rate |-> None]

NoResponse == [status_code |-> 0, detail |-> "", segments |-> <<>>, full_text |-> ""]

RequestIdle ==
    /\ request = NoRequest
    /\ rpc = "idle"
    /\ language_list = NoLanguages
    /\ raised = NoError
    /\ response = NoResponse

\* no transcript
NoTranscript == [language_code |-> "", is_generated |-> FALSE, translated_from |-> ""]

SelectIdle ==
    /\ listing = <<>>
    /\ selection = [language_list |-> NoLanguages, translate_to |-> Unset]
    /\ transcript_metadata = NoTranscript
    /\ fetched = NoTranscript
    /\ spc = "idle"

ConcurrentIdle ==
    /\ reqs = <<>>
    /\ actor = "none"

ProxyIdle ==
    /\ env = EmptyEnv
    /\ client = DirectClient(0)
    /\ proxy_config = NoProxyConfig
    /\ session_ids = <<>>
    /\ proxy_error = FALSE
    /\ gpc = "idle"

ClassifyIdle ==
    /\ exc = NoError
    /\ video_id = ""
    /\ http_exc = NoHTTPException

BuildIdle ==
    /\ transcript = <<>>
    /\ bpc = "idle"

FilterIdle ==
    /\ segments = <<>>
    /\ limit = None
    /\ merge_segments = None
    /\ max_duration = None
    /\ sample_rate = None
    /\ query_order = <<>>
    /\ filtered_segments = <<>>
    /\ fpc = "idle"
    /\ stages = <<>>
    /\ runs = <<>>

NextRetry ==
    \/ CallSource /\ UNCHANGED notRetryVars
    \/ (\E r \in SourceResults : SourceReturns(r)) /\ UNCHANGED notRetryVars
    \/ (\E t \in SourceErrorTypes, m \in Messages : SourceRaises(t, m)) /\ UNCHANGED notRetryVars
    \/ LoopExhausted /\ UNCHANGED notRetryVars

InitRetry ==
    /\ RetryStart
    /\ FilterIdle
    /\ BuildIdle
    /\ ClassifyIdle
    /\ ProxyIdle
    /\ RequestIdle
    /\ ConcurrentIdle
    /\ SelectIdle

SpecRetry == InitRetry /\ [][NextRetry]_vars

\* every call to the source returns or raises, and the coordinator's own steps are taken
FairSpecRetry == SpecRetry /\ WF_vars(NextRetry)

(***************************************************************************)
(* apply_segment_filters                                                   *)
(***************************************************************************)
\* round(x, 2) of a time x given in thousandths: the nearest multiple of 10,
\* a tie going to the even hundredth
Round2(x) ==
    LET q == x \div 10
        r == x % 10
    IN  IF r < 5 THEN 10 * q
        ELSE IF r > 5 THEN 10 * (q + 1)
        ELSE IF q % 2 = 0 THEN 10 * q ELSE 10 * (q + 1)

TranscriptSegment(t, st, d, en) == [text |-> t, start |-> st, duration |-> d, end |-> en]

\* range(start, stop, step) for step > 0, as the sequence of its values
PyRange(start, stop, step) ==
    LET cnt == IF stop > start THEN (stop - start + step - 1) \div step ELSE 0
    IN  [j \in 1..cnt |-> start + (j - 1) * step]

\* s[i:j] for 0 <= i
PySlice(s, i, j) == SubSeq(s, i + 1, Min(j, Len(s)))

\* s[:stop]
PyPrefix(s, stop) ==
    IF stop < 0 THEN SubSeq(s, 1, Max(Len(s) + stop, 0))
    ELSE SubSeq(s, 1, Min(stop, Len(s)))

\* s[::step] for step > 0
PyStride(s, step) ==
    LET idx == PyRange(0, Len(s), step)
    IN  [j \in 1..Len(idx) |-> s[idx[j] + 1]]

\* " ".join(texts)
RECURSIVE JoinSpace(_)
JoinSpace(texts) ==
    IF Len(texts) = 0 THEN ""
    ELSE IF Len(texts) = 1 THEN texts[1]
    ELSE texts[1] \o " " \o JoinSpace(Tail(texts))

\* a truncation that keeps the segment starting at the boundary
TruncateInclusive(segs, md) ==
    LET Keep(seg) == seg.start <= md
    IN  SelectSeq(segs, Keep)

\* [s for s in filtered_segments if s.start < max_duration]
TruncateByTime(segs, md) ==
    LET Keep(seg) == seg.start < md
    IN  SelectSeq(segs, Keep)

\* a stride that starts at the k-th segment
SubsampleFromKth(segs, k) ==
    LET idx == PyRange(k - 1, Len(segs), k)
    IN  [j \in 1..Len(idx) |-> segs[idx[j] + 1]]

\* filtered_segments[::sample_rate]
Subsample(segs, k) == PyStride(segs, k)

RECURSIVE SumDurations(_)
SumDurations(batch) ==
    IF Len(batch) = 0 THEN 0 ELSE batch[1].duration + SumDurations(Tail(batch))

\* a merge whose duration is the sum of the members' durations
MergeBatchSumDurations(batch) ==
    TranscriptSegment(JoinSpace([i \in 1..Len(batch) |-> batch[i].text]),
                      Round2(batch[1].start),
                      Round2(SumDurations(batch)),
                      Round2(Last(batch).end))

\* a merge that takes its duration from the last member
MergeBatchLastDuration(batch) ==
    TranscriptSegment(JoinSpace([i \in 1..Len(batch) |-> batch[i].text]),
                      Round2(batch[1].start),
                      Round2(Last(batch).duration),
                      Round2(Last(batch).end))

\* the TranscriptSegment built from one non-empty batch
MergeBatch(batch) ==
    LET merged_text == JoinSpace([i \in 1..Len(batch) |-> batch[i].text])
        start_time == batch[1].start
        end_time == Last(batch).end
    IN  TranscriptSegment(merged_text,
                          Round2(start_time),
                          Round2(end_time - start_time),
                          Round2(end_time))

\* a merge loop that leaves out a trailing batch of fewer than m segments
MergeAdjacentFullOnly(segs, m) ==
    LET starts == PyRange(0, Len(segs) - m + 1, m)
    IN  [j \in 1..Len(starts) |-> MergeBatch(PySlice(segs, starts[j], starts[j] + m))]

\* the merge loop: one segment per batch filtered_segments[i:i + merge_segments]
MergeAdjacent(segs, m) ==
    LET starts == PyRange(0, Len(segs), m)
        batches == [j \in 1..Len(starts) |-> PySlice(segs, starts[j], starts[j] + m)]
        nonEmpty == SelectSeq(batches, LAMBDA b : Len(b) > 0)
    IN  [j \in 1..Len(nonEmpty) |-> MergeBatch(nonEmpty[j])]

\* a limit whose slice starts at index 1
LimitSkipFirst(segs, l) == PySlice(segs, 1, l)

\* filtered_segments[:limit]
LimitCount(segs, l) == PyPrefix(segs, l)

\* the stages run in the order in which the request gave their parameters
StageOrderAsGiven == query_order

\* the limit taken before the merge
StageOrderLimitBeforeMerge == <<"max_duration", "sample_rate", "limit", "merge_segments">>

\* the order of the four if-blocks, each stage named by its parameter
StageOrder == <<"max_duration", "sample_rate", "merge_segments", "limit">>

StageAfter(st) ==
    LET i == CHOOSE j \in 1..Len(StageOrder) : StageOrder[j] = st
    IN  IF i < Len(StageOrder) THEN StageOrder[i + 1] ELSE "done"

(***************************************************************************)
(* The inputs of apply_segment_filters: the segments the segmented         *)
(* endpoint builds (times rounded to 2 decimals, end rounded on its own)   *)
(* and the query parameters that pass the endpoint's validation.           *)
(***************************************************************************)
SegmentPool ==
    { TranscriptSegment("a", 0, 2000, 2000),
      TranscriptSegment("b", 5000, 1500, 6500),
      TranscriptSegment("c", 4000, 2500, 6510) }

ShortInputs == UNION {[1..n -> SegmentPool] : n \in 0..MaxLen}

Words == <<"w0", "w1", "w2", "w3", "w4", "w5", "w6", "w7", "w8", "w9">>

\* a transcript of n consecutive 2-second segments starting at 0
Transcript(n) ==
    [i \in 1..n |-> TranscriptSegment(Words[i], 2000 * (i - 1), 2000, 2000 * i)]

LongInputs == {Transcript(n) : n \in (MaxLen + 1)..MaxTranscript}

CountParams == {None} \cup {Some(v) : v \in 1..MaxParam}

DurationParams == {None, Some(5000), Some(9000)}

QueryOrders ==
    { <<"limit", "merge_segments", "max_duration", "sample_rate">>,
      <<"merge_segments", "limit", "sample_rate", "max_duration">> }

RetryIdle ==
    /\ op = "none"
    /\ api = DirectClient(0)
    /\ languages = NoLanguages
    /\ max_retries = 0
    /\ attempt = 0
    /\ pc = "idle"
    /\ calls = <<>>
    /\ outcome = [kind |-> "none", val |-> "", err |-> NoError]
    /\ nextId = 1

\* the state after filtered_segments = segments.copy()
InitFilter ==
    /\ RetryIdle
    /\ BuildIdle
    /\ ClassifyIdle
    /\ ProxyIdle
    /\ RequestIdle
    /\ ConcurrentIdle
    /\ SelectIdle
    /\ segments \in ShortInputs \cup LongInputs
    /\ limit \in CountParams
    /\ merge_segments \in CountParams
    /\ max_duration \in DurationParams
    /\ sample_rate \in CountParams
    /\ query_order \in QueryOrders
    /\ filtered_segments = segments
    /\ fpc = StageOrder[1]
    /\ stages = <<>>
    /\ runs = <<>>

\* what one stage leaves in filtered_segments and in the history
StageDone(st, result) ==
    /\ filtered_segments' = result
    /\ stages' = Append(stages, [stage |-> st, out |-> result])
    /\ fpc' = StageAfter(st)
    /\ UNCHANGED <<segments, limit, merge_segments, max_duration, sample_rate, query_order, runs>>

\* if max_duration is not None: ...
TruncateStage ==
    /\ fpc = "max_duration"
    /\ StageDone("max_duration",
                 IF max_duration.some
                 THEN TruncateByTime(filtered_segments, max_duration.val)
                 ELSE filtered_segments)

\* if sample_rate is not None and sample_rate > 1: ...
SubsampleStage ==
    /\ fpc = "sample_rate"
    /\ StageDone("sample_rate",
                 IF sample_rate.some /\ sample_rate.val > 1
                 THEN Subsample(filtered_segments, sample_rate.val)
                 ELSE filtered_segments)

\* if merge_segments is not None and merge_segments > 1: ...
MergeStage ==
    /\ fpc = "merge_segments"
    /\ StageDone("merge_segments",
                 IF merge_segments.some /\ merge_segments.val > 1
                 THEN MergeAdjacent(filtered_segments, merge_segments.val)
                 ELSE filtered_segments)

\* if limit is not None: ...
LimitStage ==
    /\ fpc = "limit"
    /\ StageDone("limit",
                 IF limit.some
                 THEN LimitCount(filtered_segments, limit.val)
                 ELSE filtered_segments)

NextFilter ==
    \/ TruncateStage /\ UNCHANGED notFilterVars
    \/ SubsampleStage /\ UNCHANGED notFilterVars
    \/ MergeStage /\ UNCHANGED notFilterVars
    \/ LimitStage /\ UNCHANGED notFilterVars

SpecFilter == InitFilter /\ [][NextFilter]_vars

\* apply_segment_filters is called again, on the list it returned and with the
\* same parameters
Reapply ==
    /\ fpc = "done"
    /\ Len(runs) < MaxReapply
    /\ runs' = Append(runs, filtered_segments)
    /\ segments' = filtered_segments
    /\ filtered_segments' = filtered_segments
    /\ fpc' = StageOrder[1]
    /\ stages' = <<>>
    /\ UNCHANGED <<limit, merge_segments, max_duration, sample_rate, query_order>>

NextRefilter ==
    \/ NextFilter
    \/ Reapply /\ UNCHANGED notFilterVars

SpecRefilter == InitFilter /\ [][NextRefilter]_vars

(***************************************************************************)
(* get_segmented_transcript: the loop that converts the fetched transcript *)
(* to the response format.                                                 *)
(***************************************************************************)
\* raw start times and durations as the source gives them, in thousandths
RawStarts == {0, 1004, 2006, 6004}
RawDurations == {996, 1004, 2000, 3006}

RawSegments == [text : {"t"}, start : RawStarts, duration : RawDurations]

FetchedTranscripts == UNION {[1..n -> RawSegments] : n \in 0..MaxRaw}

\* TranscriptSegment(text=segment.text, start=round(segment.start, 2),
\*     duration=round(segment.duration, 2), end=round(segment.start + segment.duration, 2))
ResponseSegment(segment) ==
    TranscriptSegment(segment.text,
                      Round2(segment.start),
                      Round2(segment.duration),
                      Round2(segment.start + segment.duration))

\* the state at segments = []
InitBuild ==
    /\ RetryIdle
    /\ FilterIdle
    /\ ClassifyIdle
    /\ ProxyIdle
    /\ RequestIdle
    /\ ConcurrentIdle
    /\ SelectIdle
    /\ transcript \in FetchedTranscripts
    /\ bpc = "loop"

\* one iteration of `for segment in transcript: segments.append(...)`
BuildSegment ==
    /\ bpc = "loop"
    /\ Len(segments) < Len(transcript)
    /\ segments' = Append(segments, ResponseSegment(transcript[Len(segments) + 1]))
    /\ UNCHANGED <<limit, merge_segments, max_duration, sample_rate, query_order,
                   filtered_segments, fpc, stages, runs>>
    /\ UNCHANGED <<retryVars, buildVars, classifyVars, proxyVars, requestVars, concurrentVars, selectVars>>

\* the loop ends
BuildDone ==
    /\ bpc = "loop"
    /\ Len(segments) = Len(transcript)
    /\ bpc' = "built"
    /\ UNCHANGED <<retryVars, filterVars, classifyVars, proxyVars, requestVars, concurrentVars, selectVars, transcript>>

NextBuild ==
    \/ BuildSegment
    \/ BuildDone

SpecBuild == InitBuild /\ [][NextBuild]_vars

(***************************************************************************)
(* handle_transcript_errors                                                *)
(***************************************************************************)
\* the exception classes the classifier tests with isinstance; "Exception" is
\* any other class
ErrorTypes ==
    { "TranscriptsDisabled", "NoTranscriptFound", "VideoUnavailable",
      "RequestBlocked", "IpBlocked", "NotTranslatable",
      "TranslationLanguageNotAvailable", "Exception" }

\* values of str(e)
ClassifierMessages ==
    Messages \cup
    { "407 Proxy Authentication Required",
      "ProxyError: Tunnel connection failed",
      "Max retries exceeded (Caused by ReadTimeoutError: Read timed out.)",
      "READ TIMED OUT",
      "Connection pool is full, discarding connection",
      "Subtitles are disabled for this video",
      "Could not retrieve a transcript for the video",
      "Auth failed: too many requests" }

VideoIds == {"dQw4w9WgXcQ"}

HTTPException(code, text) == [status_code |-> code, detail |-> text]

\* the branches that test the exception's class and the rate-limit signal,
\* from `elif isinstance(e, TranscriptsDisabled)` to the final else
TypedBranches(e, vid, error_str) ==
    IF e.type = "TranscriptsDisabled"
    THEN HTTPException(403, "Transcripts are disabled for video " \o vid)
    ELSE IF e.type = "NoTranscriptFound"
    THEN HTTPException(404, "No transcript found for video " \o vid
                              \o " in the requested language(s)")
    ELSE IF e.type = "VideoUnavailable"
    THEN HTTPException(404, "Video " \o vid \o " is unavailable")
    ELSE IF Contains(e.msg, "429") \/ Contains(error_str, "too many requests")
    THEN HTTPException(429, "Too many requests. Please try again later.")
    ELSE IF e.type \in {"RequestBlocked", "IpBlocked"}
    THEN HTTPException(403, "Request blocked. Consider using a proxy service.")
    ELSE IF e.type = "NotTranslatable"
    THEN HTTPException(400, "The requested transcript cannot be translated")
    ELSE IF e.type = "TranslationLanguageNotAvailable"
    THEN HTTPException(400, "Translation to the requested language is not available")
    ELSE HTTPException(500, "An unexpected error occurred: " \o e.msg)

\* a chain that tests the exception's class before the proxy and timeout signals
BranchesTypedFirst(e, vid, error_str) ==
    IF e.type # "Exception"
    THEN TypedBranches(e, vid, error_str)
    ELSE IF Contains(e.msg, "407") \/ Contains(error_str, "auth failed")
            \/ Contains(error_str, "ip_forbidden")
            \/ Contains(error_str, "proxyerror") \/ Contains(error_str, "tunnel connection failed")
    THEN HTTPException(502, "Proxy connection failed. The service may be temporarily unavailable.")
    ELSE IF Contains(error_str, "max retries exceeded") \/ Contains(error_str, "connection pool")
    THEN HTTPException(503, "Service temporarily unavailable. Please try again later.")
    ELSE IF Contains(error_str, "read timed out") \/ Contains(error_str, "timeout")
    THEN HTTPException(504, "Request timed out. Please try again later.")
    ELSE TypedBranches(e, vid, error_str)

\* the if/elif chain, with error_str = str(e).lower()
Branches(e, vid, error_str) ==
    IF Contains(e.msg, "407") \/ Contains(error_str, "auth failed")
       \/ Contains(error_str, "ip_forbidden")
    THEN HTTPException(502, "Proxy authentication failed. Please check your proxy "
                              \o "credentials or try again later.")
    ELSE IF Contains(error_str, "proxyerror") \/ Contains(error_str, "tunnel connection failed")
    THEN HTTPException(502, "Proxy connection failed. The service may be temporarily unavailable.")
    ELSE IF Contains(error_str, "max retries exceeded") \/ Contains(error_str, "connection pool")
    THEN HTTPException(503, "Service temporarily unavailable. Please try again later.")
    ELSE IF Contains(error_str, "read timed out") \/ Contains(error_str, "timeout")
    THEN HTTPException(504, "Request timed out. Please try again later.")
    ELSE TypedBranches(e, vid, error_str)

\* the signals searched in str(e) without .lower()
HandleWithoutLower(e, vid) == Branches(e, vid, e.msg)

\* handle_transcript_errors(e, video_id)
HandleTranscriptErrors(e, vid) == Branches(e, vid, Lower(e.msg))

InitClassify ==
    /\ RetryIdle
    /\ FilterIdle
    /\ BuildIdle
    /\ ProxyIdle
    /\ RequestIdle
    /\ ConcurrentIdle
    /\ SelectIdle
    /\ exc \in [type : ErrorTypes, msg : ClassifierMessages, id : {1}]
    /\ video_id \in VideoIds
    /\ http_exc = NoHTTPException

\* the call of handle_transcript_errors(e, video_id)
Classify ==
    /\ http_exc = NoHTTPException
    /\ http_exc' = HandleTranscriptErrors(exc, video_id)
    /\ UNCHANGED <<exc, video_id, retryVars, filterVars, buildVars, proxyVars, requestVars, concurrentVars, selectVars>>

SpecClassify == InitClassify /\ [][Classify]_vars

(***************************************************************************)
(* generate_session_id and get_youtube_api                                 *)
(***************************************************************************)
\* values of str(uuid.uuid4())[:8]
\* values of str(uuid.uuid4()); two of them agree on their first 8 characters
Uuids ==
    { "3f2a9c1e-7b4d-4e1a-9c3f-2b8d6e4f1a70", "3f2a9c1e-0c55-4d2b-8a17-5e9f3c6b2d41",
      "b07d44e2-91aa-4f6c-b3e8-0d2c7a5f9e13", "9e107d9d-372b-4b6d-a1c4-6f8e2d0b5a97" }

\* a token cut after 4 characters
GenerateSessionIdShort(u) == SubSeq(u, 1, 4)

\* generate_session_id: str(uuid.uuid4())[:8]
GenerateSessionId(u) == SubSeq(u, 1, 8)

SessionTokens == {GenerateSessionId(u) : u \in Uuids}

DefaultEndpoint == "brd.superproxy.io:22225"

\* os.getenv(name): None when the variable is unset.  Python's truth test of
\* the result is false for None and for the empty string.
Truthy(v) == v.some /\ v.val # ""

\* os.getenv(name, default)
GetenvOr(v, default) == IF v.some THEN v.val ELSE default

\* a test that takes a variable that is set, even to "", as configured
ProxyConfiguredWhenSet(username, password) == username.some /\ password.some

\* if proxy_username and proxy_password
ProxyConfigured(username, password) == Truthy(username) /\ Truthy(password)

\* a proxy URL that carries the base username
ProxyUrlBaseUsername(username, session_id, password, endpoint) ==
    "http://" \o username \o ":" \o password \o "@" \o endpoint

\* f"http://{rotated_username}:{proxy_password}@{proxy_endpoint}" with
\* rotated_username = f"{proxy_username}-session-{session_id}"
ProxyUrl(username, session_id, password, endpoint) ==
    "http://" \o (username \o "-session-" \o session_id) \o ":" \o password \o "@" \o endpoint

ProxyClient(id) == [kind |-> "proxy", id |-> id]

Environments ==
    [API_TOKEN : {Unset},
     BRIGHTDATA_USERNAME : {Unset, SetTo(""), SetTo("brd-customer-c1")},
     BRIGHTDATA_PASSWORD : {Unset, SetTo(""), SetTo("pw")},
     BRIGHTDATA_ENDPOINT : {Unset, SetTo("proxy.example:8080")}]

\* get_youtube_api(): session_id is what generate_session_id returns;
\* build_raises tells whether GenericProxyConfig(...) or
\* YouTubeTranscriptApi(proxy_config=...) raises
GetYoutubeApiCall(session_id, build_raises) ==
    LET proxy_username == env.BRIGHTDATA_USERNAME
        proxy_password == env.BRIGHTDATA_PASSWORD
        proxy_endpoint == GetenvOr(env.BRIGHTDATA_ENDPOINT, DefaultEndpoint)
        url == ProxyUrl(proxy_username.val, session_id, proxy_password.val, proxy_endpoint)
    IN  /\ nextId' = nextId + 1
        /\ IF ProxyConfigured(proxy_username, proxy_password)
           THEN /\ session_ids' = Append(session_ids, session_id)
                /\ proxy_error' = build_raises
                /\ IF build_raises
                   THEN /\ client' = DirectClient(nextId)
                        /\ proxy_config' = NoProxyConfig
                   ELSE /\ client' = ProxyClient(nextId)
                        /\ proxy_config' = ProxyConfig(url, url)
           ELSE /\ client' = DirectClient(nextId)
                /\ proxy_config' = NoProxyConfig
                /\ UNCHANGED <<session_ids, proxy_error>>

InitProxy ==
    /\ RetryIdle
    /\ FilterIdle
    /\ BuildIdle
    /\ ClassifyIdle
    /\ RequestIdle
    /\ ConcurrentIdle
    /\ SelectIdle
    /\ env \in Environments
    /\ client = DirectClient(0)
    /\ proxy_config = NoProxyConfig
    /\ session_ids = <<>>
    /\ proxy_error = FALSE
    /\ gpc = "call"

\* one call of get_youtube_api, from entry to return
GetYoutubeApi(session_id, build_raises) ==
    /\ gpc = "call"
    /\ GetYoutubeApiCall(session_id, build_raises)
    /\ gpc' = "returned"
    /\ UNCHANGED <<env, op, api, languages, max_retries, attempt, pc, calls, outcome>>
    /\ UNCHANGED <<filterVars, buildVars, classifyVars, requestVars, concurrentVars, selectVars>>

\* the caller calls get_youtube_api again
CallAgain ==
    /\ gpc = "returned"
    /\ nextId <= MaxClients
    /\ gpc' = "call"
    /\ UNCHANGED <<env, client, proxy_config, session_ids, proxy_error>>
    /\ UNCHANGED <<retryVars, filterVars, buildVars, classifyVars, requestVars, concurrentVars, selectVars>>

NextProxy ==
    \/ \E session_id \in SessionTokens, build_raises \in BOOLEAN :
          GetYoutubeApi(session_id, build_raises)
    \/ CallAgain

SpecProxy == InitProxy /\ [][NextProxy]_vars

(***************************************************************************)
(* The endpoints: verify_bearer_token, health_check and the three          *)
(* transcript endpoints, one request from its arrival to its response.     *)
(***************************************************************************)
DefaultMaxRetries == 2

\* s.split(',')
RECURSIVE SplitComma(_)
SplitComma(s) ==
    IF ~Contains(s, ",") THEN <<s>>
    ELSE LET i == CHOOSE j \in 1..Len(s) :
                      SubSeq(s, j, j) = "," /\ \A k \in 1..(j - 1) : SubSeq(s, k, k) # ","
         IN  <<SubSeq(s, 1, i - 1)>> \o SplitComma(SubSeq(s, i + 1, Len(s)))

\* s.strip(), for the blanks a query string carries
RECURSIVE Strip(_)
Strip(s) ==
    IF Len(s) > 0 /\ SubSeq(s, 1, 1) = " " THEN Strip(SubSeq(s, 2, Len(s)))
    ELSE IF Len(s) > 0 /\ SubSeq(s, Len(s), Len(s)) = " " THEN Strip(SubSeq(s, 1, Len(s) - 1))
    ELSE s

\* language_list = None; if languages: language_list = [lang.strip() for lang in languages.split(',')]
ParseLanguages(q) ==
    IF Truthy(q)
    THEN LET parts == SplitComma(q.val)
         IN  [some |-> TRUE, val |-> [i \in 1..Len(parts) |-> Strip(parts[i])]]
    ELSE NoLanguages

\* separator.join(texts)
RECURSIVE JoinWith(_, _)
JoinWith(texts, separator) ==
    IF Len(texts) = 0 THEN ""
    ELSE IF Len(texts) = 1 THEN texts[1]
    ELSE texts[1] \o separator \o JoinWith(Tail(texts), separator)

\* apply_segment_filters(segments, limit, merge_segments, max_duration, sample_rate)
ApplySegmentFilters(segs, l, m, d, s) ==
    LET truncated == IF d.some THEN TruncateByTime(segs, d.val) ELSE segs
        sampled == IF s.some /\ s.val > 1 THEN Subsample(truncated, s.val) ELSE truncated
        merged == IF m.some /\ m.val > 1 THEN MergeAdjacent(sampled, m.val) ELSE sampled
    IN  IF l.some THEN LimitCount(merged, l.val) ELSE merged

\* the segments a fetched transcript holds
TranscriptData(r) ==
    IF r = "transcript_a"
    THEN << [text |-> "never", start |-> 0, duration |-> 1004],
            [text |-> "gonna", start |-> 1004, duration |-> 2000],
            [text |-> "give", start |-> 6004, duration |-> 996] >>
    ELSE <<>>

ListResults == {"transcript_list"}

\* what the source raises while a request is served
RequestMessages == {"Connection TIMEOUT", "Video unavailable"}
LibraryMessage == "Could not retrieve a transcript for the video"

\* the query parameters of the segmented endpoint that reduce the segments
NoReduction ==
    [limit |-> None, merge_segments |-> None, max_duration |-> None, sample_rate |-> None]
ReductionChoices ==
    { NoReduction,
      [limit |-> Some(1), merge_segments |-> Some(2), max_duration |-> Some(5000),
       sample_rate |-> None] }

Credentials == {Unset, SetTo("secret"), SetTo("wrong")}
LanguageQueries == {Unset, SetTo("en, es")}
TranslateQueries == {Unset, SetTo("de")}

Request(ep, cred, langs, tr, sep, red) ==
    [endpoint |-> ep, credentials |-> cred, languages |-> langs, translate_to |-> tr,
     separator |-> sep, limit |-> red.limit, merge_segments |-> red.merge_segments,
     max_duration |-> red.max_duration, sample_rate |-> red.sample_rate]

Requests ==
    {Request("health", c, Unset, Unset, "", NoReduction) : c \in Credentials}
    \cup {Request("available", c, Unset, Unset, "", NoReduction) : c \in Credentials}
    \cup {Request("unsegmented", c, l, t, " ", NoReduction) :
             c \in Credentials, l \in LanguageQueries, t \in TranslateQueries}
    \cup {Request("segmented", c, l, t, "", r) :
             c \in Credentials, l \in LanguageQueries, t \in TranslateQueries,
             r \in ReductionChoices}

RequestEnvironments ==
    [API_TOKEN : {Unset, SetTo(""), SetTo("secret")},
     BRIGHTDATA_USERNAME : {Unset, SetTo("brd-customer-c1")},
     BRIGHTDATA_PASSWORD : {SetTo("pw")},
     BRIGHTDATA_ENDPOINT : {Unset}]

InitRequest ==
    /\ RetryIdle
    /\ FilterIdle
    /\ BuildIdle
    /\ ConcurrentIdle
    /\ SelectIdle
    /\ exc = NoError
    /\ http_exc = NoHTTPException
    /\ video_id \in VideoIds
    /\ env \in RequestEnvironments
    /\ client = DirectClient(0)
    /\ proxy_config = NoProxyConfig
    /\ session_ids = <<>>
    /\ proxy_error = FALSE
    /\ gpc = "idle"
    /\ request \in Requests
    /\ rpc = "received"
    /\ language_list = NoLanguages
    /\ raised = NoError
    /\ response = NoResponse

ErrorResponse(h) ==
    [status_code |-> h.status_code, detail |-> h.detail, segments |-> <<>>, full_text |-> ""]

\* @app.get("/health"): no Depends(verify_bearer_token)
HealthCheck ==
    /\ rpc = "received"
    /\ request.endpoint = "health"
    /\ response' = [NoResponse EXCEPT !.status_code = 200, !.detail = "healthy"]
    /\ rpc' = "done"
    /\ UNCHANGED <<request, language_list, raised>>
    /\ UNCHANGED <<retryVars, filterVars, buildVars, classifyVars, proxyVars, concurrentVars, selectVars>>

\* a comparison that accepts every credential
CredentialsAlwaysMatch(credentials, api_token) == TRUE

\* credentials.credentials != api_token, negated
CredentialsMatch(credentials, api_token) == credentials.val = api_token.val

\* a token check made inside the handler, after the client has been built
VerifyBearerTokenAfterClient ==
    /\ rpc = "received"
    /\ request.endpoint # "health"
    /\ \E session_id \in SessionTokens : GetYoutubeApiCall(session_id, FALSE)
    /\ gpc' = "returned"
    /\ LET api_token == env.API_TOKEN
           credentials == request.credentials
       IN  IF ~Truthy(api_token)
           THEN rpc' = "handler" /\ UNCHANGED response
           ELSE IF ~credentials.some
           THEN /\ response' = ErrorResponse(HTTPException(401, "Bearer token required"))
                /\ rpc' = "done"
           ELSE IF ~CredentialsMatch(credentials, api_token)
           THEN /\ response' = ErrorResponse(HTTPException(401, "Invalid bearer token"))
                /\ rpc' = "done"
           ELSE rpc' = "handler" /\ UNCHANGED response
    /\ UNCHANGED <<env, request, language_list, raised>>
    /\ UNCHANGED <<op, api, languages, max_retries, attempt, pc, calls, outcome>>
    /\ UNCHANGED <<filterVars, buildVars, classifyVars, concurrentVars, selectVars>>

\* Depends(verify_bearer_token) of the three transcript endpoints
VerifyBearerToken ==
    /\ rpc = "received"
    /\ request.endpoint # "health"
    /\ LET api_token == env.API_TOKEN
           credentials == request.credentials
       IN  IF ~Truthy(api_token)
           THEN rpc' = "handler" /\ UNCHANGED response
           ELSE IF ~credentials.some
           THEN /\ response' = ErrorResponse(HTTPException(401, "Bearer token required"))
                /\ rpc' = "done"
           ELSE IF ~CredentialsMatch(credentials, api_token)
           THEN /\ response' = ErrorResponse(HTTPException(401, "Invalid bearer token"))
                /\ rpc' = "done"
           ELSE rpc' = "handler" /\ UNCHANGED response
    /\ UNCHANGED <<request, language_list, raised>>
    /\ UNCHANGED <<retryVars, filterVars, buildVars, classifyVars, proxyVars, concurrentVars, selectVars>>

\* the statements of the endpoints' try bodies that can raise
TrySteps ==
    { "list_with_retry", "find_transcript", "translate", "translated_fetch",
      "fetch_with_retry" }

\* a try body that ends before the transcript is selected
TryCoversListingOnly(step) == step = "list_with_retry"

\* try: ... except Exception as e: every statement of the handler is inside
TryCovers(step) == step \in TrySteps

\* e is raised by a statement of the handler:
\* except Exception as e: raise handle_transcript_errors(e, video_id)
Except(e, step) ==
    /\ raised' = e
    /\ rpc' = "done"
    /\ IF TryCovers(step)
       THEN /\ exc' = e
            /\ http_exc' = HandleTranscriptErrors(e, video_id)
            /\ response' = ErrorResponse(HandleTranscriptErrors(e, video_id))
       ELSE /\ response' = ErrorResponse(HTTPException(500, "Internal Server Error"))
            /\ UNCHANGED <<exc, http_exc>>
    /\ UNCHANGED <<video_id, request, language_list>>

\* a fetch_with_retry that goes on with the client list_with_retry ended with
EnterCoordinatorOnLastClient(o, c, langs) ==
    /\ op' = o
    /\ api' = IF o = "fetch" THEN api ELSE c
    /\ languages' = langs
    /\ max_retries' = DefaultMaxRetries
    /\ attempt' = 0
    /\ pc' = "loop"
    /\ UNCHANGED calls
    /\ outcome' = [kind |-> "none", val |-> "", err |-> NoError]

\* list_with_retry(api, video_id) / fetch_with_retry(api, video_id, language_list)
\* is entered with the endpoint's client c and the default max_retries; the
\* calls the request has made to the source so far stay on record
EnterCoordinator(o, c, langs) ==
    /\ op' = o
    /\ api' = c
    /\ languages' = langs
    /\ max_retries' = DefaultMaxRetries
    /\ attempt' = 0
    /\ pc' = "loop"
    /\ UNCHANGED calls
    /\ outcome' = [kind |-> "none", val |-> "", err |-> NoError]

\* the transcript was fetched: the response is built and returned
Respond(r) ==
    /\ rpc' = "done"
    /\ response' =
         IF request.endpoint = "segmented"
         THEN LET built == [i \in 1..Len(TranscriptData(r)) |-> ResponseSegment(TranscriptData(r)[i])]
              IN  [NoResponse EXCEPT !.status_code = 200,
                                     !.segments = ApplySegmentFilters(built, request.limit,
                                         request.merge_segments, request.max_duration,
                                         request.sample_rate)]
         ELSE [NoResponse EXCEPT !.status_code = 200,
                                 !.full_text = JoinWith([i \in 1..Len(TranscriptData(r)) |->
                                                           TranscriptData(r)[i].text],
                                                        request.separator)]
    /\ UNCHANGED <<request, language_list, raised, classifyVars>>

\* api = get_youtube_api(); language_list = ...; transcript_list = list_with_retry(api, video_id)
\* is entered
EnterHandler(session_id, build_raises) ==
    /\ rpc = "handler"
    /\ GetYoutubeApiCall(session_id, build_raises)
    /\ gpc' = "returned"
    /\ language_list' = IF request.endpoint = "available" THEN NoLanguages
                        ELSE ParseLanguages(request.languages)
    /\ EnterCoordinator("list", client', NoLanguages)
    /\ rpc' = "listing"
    /\ UNCHANGED <<env, request, raised, response>>
    /\ UNCHANGED <<filterVars, buildVars, classifyVars, concurrentVars, selectVars>>

\* list_with_retry raised
ListRaised ==
    /\ rpc = "listing"
    /\ pc = "raised"
    /\ Except(outcome.err, "list_with_retry")
    /\ UNCHANGED <<retryVars, filterVars, buildVars, proxyVars, concurrentVars, selectVars>>

\* list_with_retry returned in get_available_transcripts: the response is built
AvailableListed ==
    /\ rpc = "listing"
    /\ pc = "returned"
    /\ request.endpoint = "available"
    /\ response' = [NoResponse EXCEPT !.status_code = 200, !.detail = outcome.val]
    /\ rpc' = "done"
    /\ UNCHANGED <<request, language_list, raised>>
    /\ UNCHANGED <<retryVars, filterVars, buildVars, classifyVars, proxyVars, concurrentVars, selectVars>>

\* list_with_retry returned and translate_to is given:
\* base_transcript = transcript_list.find_transcript(language_list or ['en'])
FindBaseTranscript(found) ==
    /\ rpc = "listing"
    /\ pc = "returned"
    /\ request.endpoint \in {"segmented", "unsegmented"}
    /\ Truthy(request.translate_to)
    /\ IF found
       THEN rpc' = "translate" /\ UNCHANGED <<request, language_list, raised, response, classifyVars>>
       ELSE Except(SourceError("NoTranscriptFound", LibraryMessage, 0), "find_transcript")
    /\ UNCHANGED <<retryVars, filterVars, buildVars, proxyVars, concurrentVars, selectVars>>

\* translated_transcript = base_transcript.translate(translate_to)
Translate(t) ==
    /\ rpc = "translate"
    /\ IF t = "ok"
       THEN rpc' = "translated_fetch"
            /\ UNCHANGED <<request, language_list, raised, response, classifyVars>>
       ELSE Except(SourceError(t, LibraryMessage, 0), "translate")
    /\ UNCHANGED <<retryVars, filterVars, buildVars, proxyVars, concurrentVars, selectVars>>

\* transcript = translated_transcript.fetch() returns r
TranslatedFetchReturns(r) ==
    /\ rpc = "translated_fetch"
    /\ Respond(r)
    /\ UNCHANGED <<retryVars, filterVars, buildVars, proxyVars, concurrentVars, selectVars>>

\* transcript = translated_transcript.fetch() raises
TranslatedFetchRaises(t, m) ==
    /\ rpc = "translated_fetch"
    /\ Except(SourceError(t, m, 0), "translated_fetch")
    /\ UNCHANGED <<retryVars, filterVars, buildVars, proxyVars, concurrentVars, selectVars>>

\* list_with_retry returned and translate_to is not given: transcript_metadata is
\* found (find_transcript(language_list), or list(transcript_list)[0]) and
\* fetch_with_retry(api, video_id, language_list) is entered
SelectAndFetch(found) ==
    /\ rpc = "listing"
    /\ pc = "returned"
    /\ request.endpoint \in {"segmented", "unsegmented"}
    /\ ~Truthy(request.translate_to)
    /\ IF language_list.some /\ ~found
       THEN /\ Except(SourceError("NoTranscriptFound", LibraryMessage, 0), "find_transcript")
            /\ UNCHANGED retryVars
       ELSE /\ EnterCoordinator("fetch", client, language_list)
            /\ rpc' = "fetching"
            /\ UNCHANGED <<nextId, request, language_list, raised, response, classifyVars>>
    /\ UNCHANGED <<filterVars, buildVars, proxyVars, concurrentVars, selectVars>>

\* fetch_with_retry raised
FetchRaised ==
    /\ rpc = "fetching"
    /\ pc = "raised"
    /\ Except(outcome.err, "fetch_with_retry")
    /\ UNCHANGED <<retryVars, filterVars, buildVars, proxyVars, concurrentVars, selectVars>>

\* fetch_with_retry returned
FetchReturned ==
    /\ rpc = "fetching"
    /\ pc = "returned"
    /\ Respond(outcome.val)
    /\ UNCHANGED <<retryVars, filterVars, buildVars, proxyVars, concurrentVars, selectVars>>

NextRequest ==
    \/ HealthCheck
    \/ VerifyBearerToken
    \/ \E session_id \in SessionTokens, build_raises \in BOOLEAN :
          EnterHandler(session_id, build_raises)
    \/ CallSource /\ UNCHANGED notRetryVars
    \/ (\E r \in (IF op = "list" THEN ListResults ELSE SourceResults) : SourceReturns(r))
          /\ UNCHANGED notRetryVars
    \/ (\E t \in SourceErrorTypes, m \in RequestMessages : SourceRaises(t, m))
          /\ UNCHANGED notRetryVars
    \/ ListRaised
    \/ AvailableListed
    \/ \E found \in BOOLEAN : FindBaseTranscript(found)
    \/ \E t \in {"ok", "NotTranslatable", "TranslationLanguageNotAvailable"} : Translate(t)
    \/ \E r \in SourceResults : TranslatedFetchReturns(r)
    \/ \E t \in SourceErrorTypes, m \in RequestMessages : TranslatedFetchRaises(t, m)
    \/ \E found \in BOOLEAN : SelectAndFetch(found)
    \/ FetchRaised
    \/ FetchReturned

SpecRequest == InitRequest /\ [][NextRequest]_vars

(***************************************************************************)
(* Concurrent requests to /transcript/available/{video_id}: each runs      *)
(* get_available_transcripts, and their steps interleave at the calls to   *)
(* the transcript source.                                                  *)
(***************************************************************************)
Reqs == {"r1", "r2"}

ConcurrentEnvironments ==
    [API_TOKEN : {Unset},
     BRIGHTDATA_USERNAME : {Unset, SetTo("brd-customer-c1")},
     BRIGHTDATA_PASSWORD : {SetTo("pw")},
     BRIGHTDATA_ENDPOINT : {Unset}]

ConcurrentMessages == {"Connection TIMEOUT", "Video unavailable"}

\* the locals of one request before its handler runs
FreshRequest ==
    [pc |-> "start", video_id |-> "dQw4w9WgXcQ", client |-> DirectClient(0),
     api |-> DirectClient(0), session_id |-> Unset, proxy_url |-> "", built |-> 0,
     attempt |-> 0, received |-> <<>>, owned |-> {}, response |-> NoResponse]

\* a module-level client handed to every request
CachedObject(n) == 1

\* YouTubeTranscriptApi(...) constructs a new object: n objects exist already
NewObject(n) == n

InitConcurrent ==
    /\ RetryIdle
    /\ FilterIdle
    /\ BuildIdle
    /\ ClassifyIdle
    /\ RequestIdle
    /\ env \in ConcurrentEnvironments
    /\ client = DirectClient(0)
    /\ proxy_config = NoProxyConfig
    /\ session_ids = <<>>
    /\ proxy_error = FALSE
    /\ gpc = "idle"
    /\ SelectIdle
    /\ reqs = [r \in Reqs |-> FreshRequest]
    /\ actor = "none"

UnchangedByRequests ==
    UNCHANGED <<op, api, languages, max_retries, attempt, pc, calls, outcome,
                filterVars, buildVars, classifyVars, proxyVars, requestVars, selectVars>>

\* request r: verify_bearer_token passes (no API_TOKEN), api = get_youtube_api(),
\* and list_with_retry(api, video_id) is entered
StartRequest(r, session_id, build_raises) ==
    /\ reqs[r].pc = "start"
    /\ ~Truthy(env.API_TOKEN)
    /\ LET configured == ProxyConfigured(env.BRIGHTDATA_USERNAME, env.BRIGHTDATA_PASSWORD)
           id == NewObject(nextId)
           c == IF configured /\ ~build_raises THEN ProxyClient(id) ELSE DirectClient(id)
           url == ProxyUrl(env.BRIGHTDATA_USERNAME.val, session_id, env.BRIGHTDATA_PASSWORD.val,
                           GetenvOr(env.BRIGHTDATA_ENDPOINT, DefaultEndpoint))
       IN  reqs' = [reqs EXCEPT ![r] =
                      [@ EXCEPT !.pc = "loop", !.client = c, !.api = c,
                                !.session_id = IF configured THEN SetTo(session_id) ELSE Unset,
                                !.proxy_url = IF configured /\ ~build_raises THEN url ELSE "",
                                !.built = @ + 1, !.owned = @ \cup {id}]]
    /\ nextId' = nextId + 1
    /\ actor' = r
    /\ UnchangedByRequests

\* request r: try: return api.list(video_id) is invoked
RequestCallsSource(r) ==
    /\ reqs[r].pc = "loop"
    /\ InRange(reqs[r].attempt, DefaultMaxRetries)
    /\ reqs' = [reqs EXCEPT ![r].pc = "waiting"]
    /\ actor' = r
    /\ UNCHANGED nextId
    /\ UnchangedByRequests

\* request r: the source answers with a transcript list and the response is built
RequestSourceReturns(r, res) ==
    /\ reqs[r].pc = "waiting"
    /\ reqs' = [reqs EXCEPT ![r] =
                   [@ EXCEPT !.pc = "done",
                             !.received = Append(@, [st |-> "ok", val |-> res, err |-> NoError]),
                             !.response = [NoResponse EXCEPT !.status_code = 200,
                                                             !.detail = Returned(res)]]]
    /\ actor' = r
    /\ UNCHANGED nextId
    /\ UnchangedByRequests

\* request r: the source raises; list_with_retry retries on a new direct client
\* or raises, and then the endpoint answers handle_transcript_errors(e, video_id)
RequestSourceRaises(r, t, m) ==
    /\ reqs[r].pc = "waiting"
    /\ LET e == SourceError(t, m, Len(reqs[r].received) + 1)
           got == Append(reqs[r].received, [st |-> "err", val |-> "", err |-> e])
       IN  IF ShouldRetry(reqs[r].attempt, DefaultMaxRetries, e.msg)
           THEN /\ reqs' = [reqs EXCEPT ![r] =
                              [@ EXCEPT !.pc = "loop", !.received = got,
                                        !.api = RebuiltApi(@, NewObject(nextId)),
                                        !.owned = @ \cup {NewObject(nextId)},
                                        !.attempt = NextAttempt(@)]]
                /\ nextId' = nextId + 1
           ELSE /\ reqs' = [reqs EXCEPT ![r] =
                              [@ EXCEPT !.pc = "done", !.received = got,
                                        !.response = ErrorResponse(
                                            HandleTranscriptErrors(Reraised(e), reqs[r].video_id))]]
                /\ UNCHANGED nextId
    /\ actor' = r
    /\ UnchangedByRequests

NextConcurrent ==
    \/ \E r \in Reqs, session_id \in SessionTokens, build_raises \in BOOLEAN :
          StartRequest(r, session_id, build_raises)
    \/ \E r \in Reqs : RequestCallsSource(r)
    \/ \E r \in Reqs, res \in ListResults : RequestSourceReturns(r, res)
    \/ \E r \in Reqs, m \in ConcurrentMessages : RequestSourceRaises(r, "Exception", m)

SpecConcurrent == InitConcurrent /\ [][NextConcurrent]_vars

(***************************************************************************)
(* The transcript the segmented and unsegmented endpoints take their       *)
(* metadata from, and the transcript they fetch.  The listing and the      *)
(* selection rules are those of youtube_transcript_api: a listing yields   *)
(* the manually created transcripts before the generated ones;             *)
(* find_transcript takes the first requested language that has a           *)
(* transcript, a manually created one if there is one; fetch without       *)
(* languages asks for ("en",).                                             *)
(***************************************************************************)
ListedTranscript(code, generated) ==
    [language_code |-> code, is_generated |-> generated, translated_from |-> ""]

ManualOrders == {<<>>, <<"en">>, <<"es">>, <<"en", "es">>, <<"es", "en">>}
GeneratedOrders == {<<>>, <<"en">>, <<"es">>}

\* list(transcript_list) for the videos considered: never empty
Listings ==
    { [i \in 1..Len(m) |-> ListedTranscript(m[i], FALSE)]
        \o [i \in 1..Len(g) |-> ListedTranscript(g[i], TRUE)] :
      m \in ManualOrders, g \in GeneratedOrders } \ {<<>>}

Selections ==
    [language_list : {NoLanguages, Some(<<"en">>), Some(<<"es", "en">>), Some(<<"de">>)},
     translate_to : {Unset, SetTo("de")}]

\* the transcript of the listing in language code: the manually created one first
InLanguage(ls, code) ==
    LET at == {i \in 1..Len(ls) : ls[i].language_code = code}
    IN  IF at = {} THEN NoTranscript
        ELSE IF \E i \in at : ~ls[i].is_generated
        THEN ls[CHOOSE i \in at : ~ls[i].is_generated]
        ELSE ls[CHOOSE i \in at : TRUE]

\* transcript_list.find_transcript(codes); NoTranscript stands for NoTranscriptFound
RECURSIVE FindTranscript(_, _)
FindTranscript(ls, codes) ==
    IF Len(codes) = 0 THEN NoTranscript
    ELSE IF InLanguage(ls, codes[1]) # NoTranscript THEN InLanguage(ls, codes[1])
    ELSE FindTranscript(ls, Tail(codes))

\* base_transcript.translate(translate_to)
Translated(base, to) ==
    [language_code |-> to, is_generated |-> base.is_generated,
     translated_from |-> base.language_code]

\* the languages api.fetch is called with by fetch_with_retry(api, video_id, languages):
\* api.fetch(video_id) asks for English
FetchLanguages(langs) ==
    IF langs.some /\ Len(langs.val) > 0 THEN langs.val ELSE <<"en">>

InitSelect ==
    /\ RetryIdle
    /\ FilterIdle
    /\ BuildIdle
    /\ ClassifyIdle
    /\ ProxyIdle
    /\ RequestIdle
    /\ ConcurrentIdle
    /\ listing \in Listings
    /\ selection \in Selections
    /\ transcript_metadata = NoTranscript
    /\ fetched = NoTranscript
    /\ spc = "listed"

UnchangedBySelection ==
    UNCHANGED <<retryVars, filterVars, buildVars, classifyVars, proxyVars, requestVars,
                concurrentVars, listing, selection>>

\* if translate_to: find_transcript(language_list or ['en']), translate;
\* else: find_transcript(language_list) or list(transcript_list)[0]
SelectMetadata ==
    /\ spc = "listed"
    /\ LET langs == selection.language_list
           found == IF Truthy(selection.translate_to)
                    THEN FindTranscript(listing, IF langs.some THEN langs.val ELSE <<"en">>)
                    ELSE IF langs.some THEN FindTranscript(listing, langs.val)
                    ELSE listing[1]
       IN  IF found = NoTranscript
           THEN spc' = "error" /\ UNCHANGED transcript_metadata
           ELSE /\ spc' = "selected"
                /\ transcript_metadata' =
                     IF Truthy(selection.translate_to)
                     THEN Translated(found, selection.translate_to.val)
                     ELSE found
    /\ UNCHANGED fetched
    /\ UnchangedBySelection

\* transcript = translated_transcript.fetch(), or
\* transcript = fetch_with_retry(api, video_id, language_list), answered by the source
FetchSelected ==
    /\ spc = "selected"
    /\ LET got == IF Truthy(selection.translate_to) THEN transcript_metadata
                  ELSE FindTranscript(listing, FetchLanguages(selection.language_list))
       IN  IF got = NoTranscript
           THEN spc' = "error" /\ UNCHANGED fetched
           ELSE spc' = "done" /\ fetched' = got
    /\ UNCHANGED transcript_metadata
    /\ UnchangedBySelection

NextSelect ==
    \/ SelectMetadata
    \/ FetchSelected

SpecSelect == InitSelect /\ [][NextSelect]_vars

(***************************************************************************)
(* A coordinator called from an endpoint: what it raises is classified.    *)
(***************************************************************************)
InitRetryClassified ==
    /\ RetryStart
    /\ FilterIdle
    /\ BuildIdle
    /\ ProxyIdle
    /\ RequestIdle
    /\ ConcurrentIdle
    /\ SelectIdle
    /\ exc = NoError
    /\ video_id \in VideoIds
    /\ http_exc = NoHTTPException

\* except Exception as e: raise handle_transcript_errors(e, video_id), for the
\* error the coordinator raised
ClassifyRaised ==
    /\ pc = "raised"
    /\ http_exc = NoHTTPException
    /\ exc' = outcome.err
    /\ http_exc' = HandleTranscriptErrors(outcome.err, video_id)
    /\ UNCHANGED <<video_id, retryVars, filterVars, buildVars, proxyVars, requestVars,
                   concurrentVars, selectVars>>

NextRetryClassified ==
    \/ CallSource /\ UNCHANGED notRetryVars
    \/ (\E r \in SourceResults : SourceReturns(r)) /\ UNCHANGED notRetryVars
    \/ (\E t \in SourceErrorTypes, m \in Messages : SourceRaises(t, m)) /\ UNCHANGED notRetryVars
    \/ LoopExhausted /\ UNCHANGED notRetryVars
    \/ ClassifyRaised

SpecRetryClassified == InitRetryClassified /\ [][NextRetryClassified]_vars

(***************************************************************************)
(* Properties of the retry coordinators.                                   *)
(***************************************************************************)
Finished == pc \in {"returned", "raised"}

\* The messages of Messages that carry a retryable signal ("max retries",
\* "timeout", "proxy", in any letter case), listed by hand.
HasRetrySignal(msg) ==
    msg \in { "HTTPSConnectionPool: Max retries exceeded with url",
              "Connection TIMEOUT",
              "Unable to connect to Proxy" }

ClientIdsUpTo(i) == {calls[j].client.id : j \in 1..i}

\* C1 (state part): with max_retries = N >= 0 at most N+1 calls are made to
\* the source, the calls are made one after another (only the latest call can
\* be in flight, and it is in flight exactly while the coordinator waits), the
\* k-th call is the one of loop index k-1, and a finished call has returned
\* a result or raised an error.
C1_Attempts ==
    /\ max_retries >= 0 => Len(calls) <= max_retries + 1
    /\ \A i \in 1..Len(calls) :
          /\ calls[i].attempt = i - 1
          /\ (calls[i].st = "pending") <=> (i = Len(calls) /\ pc = "waiting")
    /\ Finished <=> outcome.kind \in {"return", "raise"}

\* C1: a call of fetch_with_retry or list_with_retry with max_retries = N >= 0
\* makes at most N+1 attempts, strictly one after another, and always
\* terminates by returning a result or raising an error, provided each
\* attempt returns or raises.
C1_BoundedSequentialTerminating == [](C1_Attempts) /\ <>Finished

\* C1 witness: with the default max_retries = 2 the third attempt has been made
\* and has failed, and the call has ended by raising.
C1_Witness ==
    /\ max_retries = 2
    /\ Len(calls) = 3
    /\ pc = "raised"

\* C2: whenever an attempt fails with a retryable message and an attempt
\* remains (attempt index < max_retries), the next attempt is made, and is
\* made with a newly built direct client, not with the client that failed.
C2_RetryOnFreshDirectClient ==
    \A i \in 1..Len(calls) :
        (/\ calls[i].st = "err"
         /\ HasRetrySignal(calls[i].err.msg)
         /\ calls[i].attempt < max_retries)
        => IF i < Len(calls)
           THEN /\ calls[i + 1].client.kind = "direct"
                /\ calls[i + 1].client.id \notin ClientIdsUpTo(i)
           ELSE /\ pc = "loop"
                /\ ENABLED CallSource
                /\ api.kind = "direct"
                /\ api.id \notin ClientIdsUpTo(i)

\* C2 witness: a proxy client failed with a retryable message and the next
\* attempt was made with another client.
C2_Witness ==
    /\ Len(calls) >= 2
    /\ calls[1].client.kind = "proxy"
    /\ calls[1].st = "err"
    /\ HasRetrySignal(calls[1].err.msg)
    /\ calls[2].client.kind = "direct"

\* C3: an attempt that fails with a message carrying no retryable signal ends
\* the call at once: that error is raised unchanged, no further attempt is
\* made and the client is not replaced, whatever the attempts remaining.
C3_NonRetryableRaisedAtOnce ==
    \A i \in 1..Len(calls) :
        (calls[i].st = "err" /\ ~HasRetrySignal(calls[i].err.msg))
        => /\ i = Len(calls)
           /\ pc = "raised"
           /\ outcome = [kind |-> "raise", val |-> "", err |-> calls[i].err]
           /\ api = calls[i].client
           /\ nextId = i

\* C3 witness: the first attempt of a call with two retries left failed with
\* "Read timed out." and the call has raised.
C3_Witness ==
    /\ max_retries = 2
    /\ Len(calls) = 1
    /\ calls[1].st = "err"
    /\ calls[1].err.msg = "Read timed out."
    /\ pc = "raised"

\* C4: when all max_retries+1 attempts fail the call raises exactly the error
\* of the last attempt, and the coordinator never returns anything but the
\* result that the source returned to its last attempt.
C4_LastErrorPropagated ==
    /\ (Finished /\ Len(calls) > 0 /\ Last(calls).st = "err")
       => outcome = [kind |-> "raise", val |-> "", err |-> Last(calls).err]
    /\ (Finished /\ max_retries >= 0) => Len(calls) > 0
    /\ outcome.kind = "return"
       => /\ Len(calls) > 0
          /\ Last(calls).st = "ok"
          /\ outcome.val = Last(calls).val
          /\ outcome.val \in SourceResults

\* C4 witness: three attempts of a call with max_retries = 2 failed with
\* retryable messages, the last with another message than the first.
C4_Witness ==
    /\ max_retries = 2
    /\ Len(calls) = 3
    /\ \A i \in 1..3 : calls[i].st = "err" /\ HasRetrySignal(calls[i].err.msg)
    /\ calls[3].err.msg # calls[1].err.msg
    /\ pc = "raised"

\* C5: k <= max_retries failures with retryable messages do not end the call
\* (the next attempt is made), and when attempt k+1 succeeds the call returns
\* its result unchanged, every attempt after the first having used a client
\* without proxy configuration.
C5_SuccessAfterRetries ==
    /\ ((\A i \in 1..Len(calls) : calls[i].st = "err" /\ HasRetrySignal(calls[i].err.msg))
        /\ Len(calls) <= max_retries)
       => (~Finished /\ ENABLED CallSource)
    /\ pc = "returned"
       => /\ outcome = [kind |-> "return", val |-> Last(calls).val, err |-> NoError]
          /\ Last(calls).st = "ok"
          /\ \A i \in 1..(Len(calls) - 1) :
                /\ calls[i].st = "err"
                /\ HasRetrySignal(calls[i].err.msg)
                /\ calls[i + 1].client.kind = "direct"

\* C5 witness: max_retries = 2, a proxy client, two "timeout" failures, then a
\* success on the third attempt, returned by the call.
C5_Witness ==
    /\ max_retries = 2
    /\ Len(calls) = 3
    /\ calls[1].client.kind = "proxy"
    /\ calls[1].err.msg = "Connection TIMEOUT"
    /\ calls[2].err.msg = "Connection TIMEOUT"
    /\ calls[2].client.kind = "direct"
    /\ calls[3].st = "ok"
    /\ pc = "returned"
    /\ outcome.val = calls[3].val

(***************************************************************************)
(* Properties of the segment pipeline.  The Ref* operators state what the  *)
(* specification says a stage yields; they are not used by the model.      *)
(***************************************************************************)
HasRun(st) == \E i \in 1..Len(stages) : stages[i].stage = st

OutOf(st) == stages[CHOOSE i \in 1..Len(stages) : stages[i].stage = st].out

\* ceil(n / k) for n >= 0 and k >= 1
CeilDiv(n, k) == CHOOSE c \in 0..n : (c - 1) * k < n /\ n <= c * k

RECURSIVE RefTruncate(_, _)
RefTruncate(s, md) ==
    IF Len(s) = 0 THEN <<>>
    ELSE LET front == RefTruncate(SubSeq(s, 1, Len(s) - 1), md)
         IN  IF Last(s).start < md THEN Append(front, Last(s)) ELSE front

RefSubsample(s, k) == [j \in 1..CeilDiv(Len(s), k) |-> s[(j - 1) * k + 1]]

RECURSIVE RefJoin(_)
RefJoin(texts) ==
    IF Len(texts) = 0 THEN ""
    ELSE IF Len(texts) = 1 THEN texts[1]
    ELSE RefJoin(SubSeq(texts, 1, Len(texts) - 1)) \o " " \o Last(texts)

\* the first and the last member of batch b of size m among n segments
BatchLo(b, m) == (b - 1) * m + 1
BatchHi(b, m, n) == IF b * m < n THEN b * m ELSE n

RefMerge(s, m) ==
    [b \in 1..CeilDiv(Len(s), m) |->
        LET lo == BatchLo(b, m)
            hi == BatchHi(b, m, Len(s))
        IN  [text |-> RefJoin([i \in 1..(hi - lo + 1) |-> s[lo + i - 1].text]),
             start |-> s[lo].start,
             duration |-> s[hi].end - s[lo].start,
             end |-> s[hi].end]]

RefLimit(s, l) == SubSeq(s, 1, IF l < Len(s) THEN l ELSE Len(s))

RefPipeline(s) ==
    LET t == IF max_duration.some THEN RefTruncate(s, max_duration.val) ELSE s
        u == IF sample_rate.some /\ sample_rate.val > 1 THEN RefSubsample(t, sample_rate.val) ELSE t
        v == IF merge_segments.some /\ merge_segments.val > 1 THEN RefMerge(u, merge_segments.val) ELSE u
    IN  IF limit.some THEN RefLimit(v, limit.val) ELSE v

\* C6: the stages run in the fixed order truncate (max_duration), subsample
\* (sample_rate), merge (merge_segments), limit, whatever the order in which
\* the request gave the parameters, and the result is the composition of the
\* four stages in that order, a stage with an unset parameter being skipped.
C6_FixedStageOrder ==
    /\ [i \in 1..Len(stages) |-> stages[i].stage]
         = SubSeq(<<"max_duration", "sample_rate", "merge_segments", "limit">>, 1, Len(stages))
    /\ fpc = "done"
       => /\ Len(stages) = 4
          /\ filtered_segments = RefPipeline(segments)

\* C6 witness: a finished call with all four parameters set, given in another
\* order than the stages', in which every stage changed the sequence.
C6_Witness ==
    /\ fpc = "done"
    /\ max_duration.some /\ sample_rate.some /\ merge_segments.some /\ limit.some
    /\ query_order[1] = "merge_segments"
    /\ stages[1].out # segments
    /\ \A i \in 2..4 : stages[i].out # stages[i - 1].out

\* The indices of s whose segment starts strictly before md.
KeptIdx(s, md) == {i \in 1..Len(s) : s[i].start < md}

\* C7: with max_duration set the truncate stage keeps exactly the segments
\* with start < max_duration, in their original order (a segment starting at
\* max_duration is dropped, one starting before it is kept whatever its end);
\* starts [0,2,4,6] with max_duration 5.0 give [0,2,4].
C7_TruncateKeepsStartBefore ==
    (HasRun("max_duration") /\ max_duration.some)
    => LET out == OutOf("max_duration")
           kept == KeptIdx(segments, max_duration.val)
       IN  /\ Len(out) = Cardinality(kept)
           /\ \A i \in kept : out[Cardinality({j \in kept : j <= i})] = segments[i]
           /\ ([i \in 1..Len(segments) |-> segments[i].start] = <<0, 2000, 4000, 6000>>
               /\ max_duration.val = 5000)
              => [i \in 1..Len(out) |-> out[i].start] = <<0, 2000, 4000>>

\* C7 witness: max_duration = 5.0 on a segment starting at 5.0, one starting at
\* 4.0 and ending at 6.51, and one starting at 0: the last two are kept.
C7_Witness ==
    /\ HasRun("max_duration")
    /\ max_duration = Some(5000)
    /\ segments = << TranscriptSegment("b", 5000, 1500, 6500),
                     TranscriptSegment("c", 4000, 2500, 6510),
                     TranscriptSegment("a", 0, 2000, 2000) >>
    /\ OutOf("max_duration") = << TranscriptSegment("c", 4000, 2500, 6510),
                                  TranscriptSegment("a", 0, 2000, 2000) >>

\* C8: with sample_rate = k > 1 the subsample stage keeps exactly the segments
\* at indices 0, k, 2k, ... of the truncated sequence, in order, so n segments
\* yield ceil(n/k) (5 segments with k = 2 give indices [0,2,4]); with
\* sample_rate unset or 1 the stage leaves the sequence unchanged.
C8_SubsampleStride ==
    (HasRun("sample_rate") /\ HasRun("max_duration"))
    => LET in == OutOf("max_duration")
           out == OutOf("sample_rate")
           n == Len(in)
       IN  IF sample_rate.some /\ sample_rate.val > 1
           THEN LET k == sample_rate.val
                IN  /\ Len(out) * k >= n
                    /\ (Len(out) - 1) * k < n \/ n = 0
                    /\ n = 0 => Len(out) = 0
                    /\ \A j \in 1..Len(out) : out[j] = in[(j - 1) * k + 1]
                    /\ (n = 5 /\ k = 2) => out = <<in[1], in[3], in[5]>>
           ELSE out = in

\* C8 witness: 5 segments reach the stage with sample_rate = 2 and 3 leave it.
C8_Witness ==
    /\ HasRun("sample_rate")
    /\ sample_rate = Some(2)
    /\ Len(OutOf("max_duration")) = 5
    /\ Len(OutOf("sample_rate")) = 3

\* C9: with merge_segments = m > 1 the merge stage emits one segment per
\* consecutive batch of m of the n segments reaching it (the last batch holding
\* the remaining n mod m when that is not 0), ceil(n/m) in all, each with the
\* batch texts joined by single spaces in order, the first member's start, the
\* last member's end and duration = end - start; with merge_segments unset or
\* 1 the stage leaves the sequence unchanged.
C9_MergeBatches ==
    (HasRun("merge_segments") /\ HasRun("sample_rate"))
    => LET in == OutOf("sample_rate")
           out == OutOf("merge_segments")
           n == Len(in)
       IN  IF merge_segments.some /\ merge_segments.val > 1
           THEN LET m == merge_segments.val
                IN  /\ Len(out) = CeilDiv(n, m)
                    /\ \A b \in 1..Len(out) :
                          LET lo == BatchLo(b, m)
                              hi == BatchHi(b, m, n)
                          IN  /\ hi - lo + 1 = (IF b = Len(out) /\ n % m # 0 THEN n % m ELSE m)
                              /\ out[b].text = RefJoin([i \in 1..(hi - lo + 1) |-> in[lo + i - 1].text])
                              /\ out[b].start = in[lo].start
                              /\ out[b].end = in[hi].end
                              /\ out[b].duration = out[b].end - out[b].start
           ELSE out = in

\* C9 witness: three segments, the last with end # start + duration, merged
\* two by two: a full batch and a trailing batch of one.
C9_Witness ==
    /\ HasRun("merge_segments")
    /\ merge_segments = Some(2)
    /\ OutOf("sample_rate") = << TranscriptSegment("a", 0, 2000, 2000),
                                 TranscriptSegment("b", 5000, 1500, 6500),
                                 TranscriptSegment("c", 4000, 2500, 6510) >>
    /\ OutOf("merge_segments") = << TranscriptSegment("a b", 0, 6500, 6500),
                                    TranscriptSegment("c", 4000, 2510, 6510) >>

\* C10: the limit stage runs last: with limit = L the output is the first
\* min(L, r) segments of the result of the three earlier stages (r its
\* length), never more than L, so L counts merged segments (merge_segments = 2
\* and limit = 1 on 4 segments give one segment, the merge of the first two).
C10_LimitLast ==
    fpc = "done"
    => /\ Last(stages).stage = "limit"
       /\ limit.some
          => LET r == stages[Len(stages) - 1].out
                 l == limit.val
             IN  /\ Len(filtered_segments) = (IF l < Len(r) THEN l ELSE Len(r))
                 /\ Len(filtered_segments) <= l
                 /\ \A i \in 1..Len(filtered_segments) : filtered_segments[i] = r[i]
                 /\ r = (IF merge_segments.some /\ merge_segments.val > 1
                         THEN RefMerge(OutOf("sample_rate"), merge_segments.val)
                         ELSE OutOf("sample_rate"))
                 /\ (/\ Len(segments) = 4 /\ merge_segments = Some(2) /\ l = 1
                     /\ ~max_duration.some /\ ~sample_rate.some)
                    => filtered_segments =
                         << [text |-> segments[1].text \o " " \o segments[2].text,
                             start |-> segments[1].start,
                             duration |-> segments[2].end - segments[1].start,
                             end |-> segments[2].end] >>

\* C10 witness: merge_segments = 2 and limit = 1 on the 4 segments of an
\* 8-second transcript give the merge of the first two.
C10_Witness ==
    /\ fpc = "done"
    /\ segments = Transcript(4)
    /\ merge_segments = Some(2) /\ limit = Some(1)
    /\ ~max_duration.some /\ ~sample_rate.some
    /\ filtered_segments = << TranscriptSegment("w0 w1", 0, 4000, 4000) >>

WellFormed(s) == \A i \in 1..Len(s) : s[i].end = s[i].start + s[i].duration

\* C11: when every input segment satisfies end = start + duration (times in
\* whole hundredths of a second), every segment of the sequence after each
\* stage, merged segments included, satisfies end = start + duration.
C11_EndIsStartPlusDuration ==
    WellFormed(segments)
    => /\ WellFormed(filtered_segments)
       /\ \A i \in 1..Len(stages) : WellFormed(stages[i].out)

\* C11 witness: two segments with a gap between them, each with
\* end = start + duration, have been merged into one of duration 6.5.
C11_Witness ==
    /\ segments = << TranscriptSegment("a", 0, 2000, 2000),
                     TranscriptSegment("b", 5000, 1500, 6500) >>
    /\ merge_segments = Some(2)
    /\ HasRun("merge_segments")
    /\ OutOf("merge_segments") = << TranscriptSegment("a b", 0, 6500, 6500) >>

\* C19 as stated: merging 7 segments with merge_segments = 3 yields 3 segments,
\* two merged from full triples and the third merged from a trailing pair.
C19_TrailingPair ==
    (/\ HasRun("merge_segments") /\ HasRun("sample_rate")
     /\ merge_segments = Some(3)
     /\ Len(OutOf("sample_rate")) = 7)
    => LET in == OutOf("sample_rate")
           out == OutOf("merge_segments")
       IN  /\ Len(out) = 3
           /\ out[1].text = in[1].text \o " " \o in[2].text \o " " \o in[3].text
           /\ out[2].text = in[4].text \o " " \o in[5].text \o " " \o in[6].text
           /\ out[3].text = in[6].text \o " " \o in[7].text
           /\ out[3].start = in[6].start

\* C19 amended: merging 7 segments with merge_segments = 3 yields 3 segments,
\* two merged from full triples and the third made of the one trailing
\* segment, each text space-joined in original order.
C19_TrailingSingle ==
    (/\ HasRun("merge_segments") /\ HasRun("sample_rate")
     /\ merge_segments = Some(3)
     /\ Len(OutOf("sample_rate")) = 7)
    => LET in == OutOf("sample_rate")
           out == OutOf("merge_segments")
       IN  /\ Len(out) = 3
           /\ out[1].text = in[1].text \o " " \o in[2].text \o " " \o in[3].text
           /\ out[1].start = in[1].start /\ out[1].end = in[3].end
           /\ out[2].text = in[4].text \o " " \o in[5].text \o " " \o in[6].text
           /\ out[2].start = in[4].start /\ out[2].end = in[6].end
           /\ out[3].text = in[7].text
           /\ out[3].start = in[7].start /\ out[3].end = in[7].end

\* C19 witness: the 7 segments of a 14-second transcript merged three by three.
C19_Witness ==
    /\ segments = Transcript(7)
    /\ ~max_duration.some /\ ~sample_rate.some
    /\ merge_segments = Some(3)
    /\ HasRun("merge_segments")
    /\ OutOf("merge_segments") = << TranscriptSegment("w0 w1 w2", 0, 6000, 6000),
                                    TranscriptSegment("w3 w4 w5", 6000, 6000, 12000),
                                    TranscriptSegment("w6", 12000, 2000, 14000) >>

\* C20: when only limit and/or max_duration take effect (no merge, no
\* subsample), applying the pipeline to its own output with the same
\* parameters returns that output unchanged: every later call returns what
\* the call before it returned.
C20_RestrictiveIdempotent ==
    (/\ fpc = "done"
     /\ Len(runs) > 0
     /\ ~(merge_segments.some /\ merge_segments.val > 1)
     /\ ~(sample_rate.some /\ sample_rate.val > 1))
    => filtered_segments = Last(runs)

\* C20 witness: limit = 1 and max_duration = 5.0 applied a second time to the
\* one segment they left of three.
C20_Witness ==
    /\ fpc = "done"
    /\ Len(runs) = 1
    /\ limit = Some(1) /\ max_duration = Some(5000)
    /\ ~merge_segments.some /\ ~sample_rate.some
    /\ runs[1] = << TranscriptSegment("c", 4000, 2500, 6510) >>
    /\ filtered_segments = runs[1]
    /\ Len(stages) = 4

\* C12: every TranscriptSegment the segmented endpoint builds from a raw
\* segment satisfies end = start + duration on the values returned.
C12_BuiltEndIsStartPlusDuration == WellFormed(segments)

(***************************************************************************)
(* Properties of handle_transcript_errors.  The rules a message satisfies  *)
(* are tabulated by hand, message by message.                              *)
(***************************************************************************)
Classified == http_exc # NoHTTPException

\* the message rules (1, 2, 3, 4 and 8) each message satisfies
MessageRules(m) ==
    CASE m = "HTTPSConnectionPool: Max retries exceeded with url" -> {3}
      [] m = "Connection TIMEOUT" -> {4}
      [] m = "Unable to connect to Proxy" -> {}
      [] m = "Read timed out." -> {4}
      [] m = "Video unavailable" -> {}
      [] m = "429 Too Many Requests" -> {8}
      [] m = "407 Proxy Authentication Required" -> {1}
      [] m = "ProxyError: Tunnel connection failed" -> {2}
      [] m = "Max retries exceeded (Caused by ReadTimeoutError: Read timed out.)" -> {3, 4}
      [] m = "READ TIMED OUT" -> {4}
      [] m = "Connection pool is full, discarding connection" -> {3}
      [] m = "Subtitles are disabled for this video" -> {}
      [] m = "Could not retrieve a transcript for the video" -> {}
      [] m = "Auth failed: too many requests" -> {1, 8}

\* the messages that contain "read timed out" in some letter case
SaysReadTimedOut(m) ==
    m \in { "Read timed out.", "READ TIMED OUT",
            "Max retries exceeded (Caused by ReadTimeoutError: Read timed out.)" }

\* the type rules (5, 6, 7, 9, 10, 11) an exception class satisfies
TypeRules(t) ==
    CASE t = "TranscriptsDisabled" -> {5}
      [] t = "NoTranscriptFound" -> {6}
      [] t = "VideoUnavailable" -> {7}
      [] t \in {"RequestBlocked", "IpBlocked"} -> {9}
      [] t = "NotTranslatable" -> {10}
      [] t = "TranslationLanguageNotAvailable" -> {11}
      [] OTHER -> {}

RuleStatus == <<502, 502, 503, 504, 403, 404, 404, 429, 403, 400, 400, 500>>

\* rule 12 matches everything
MatchingRules(e) == MessageRules(e.msg) \cup TypeRules(e.type) \cup {12}

FirstMatchingRule(e) ==
    CHOOSE r \in MatchingRules(e) : \A q \in MatchingRules(e) : r <= q

\* C13: the classifier returns the outcome of the first matching rule in the
\* fixed order (1) proxy authentication 502, (2) proxy connection 502,
\* (3) service unavailable 503, (4) timeout 504, (5) transcripts disabled 403,
\* (6) no transcript found 404, (7) video unavailable 404, (8) rate limit 429,
\* (9) request or IP blocked 403, (10) not translatable 400, (11) translation
\* language not available 400, (12) anything else 500: the message rules 1-4
\* win over every typed rule, and the typed rules 5-7 win over the rate limit.
C13_FirstMatchingRule ==
    Classified =>
        /\ http_exc.status_code = RuleStatus[FirstMatchingRule(exc)]
        /\ (MessageRules(exc.msg) \cap {1, 2, 3, 4} # {}
               => http_exc.status_code \in {502, 503, 504})
        /\ ((MessageRules(exc.msg) = {8}
              /\ exc.type \in {"TranscriptsDisabled", "NoTranscriptFound", "VideoUnavailable"})
               => http_exc.status_code \in {403, 404})
        /\ (FirstMatchingRule(exc) = 12
               => http_exc.detail = "An unexpected error occurred: " \o exc.msg)

\* a transcripts-disabled error whose message says "timeout" was classified as
\* a timeout, and a typed rule has beaten the rate limit in another run
C13_Witness ==
    /\ Classified
    /\ exc.type = "TranscriptsDisabled"
    /\ exc.msg = "Connection TIMEOUT"
    /\ http_exc.status_code = 504

\* C14 as stated: an error whose message contains "Read timed out" in any
\* letter case is classified 504 whatever its class.
C14_ReadTimedOutIs504 ==
    Classified /\ SaysReadTimedOut(exc.msg) => http_exc.status_code = 504

\* C14: an error whose message contains "Read timed out" in any letter case,
\* and none of the signals of rules 1-3, is classified 504 whatever its class.
C14_ReadTimedOutIs504UnlessEarlierRule ==
    Classified /\ SaysReadTimedOut(exc.msg) /\ MessageRules(exc.msg) \cap {1, 2, 3} = {}
        => /\ http_exc.status_code = 504
           /\ http_exc.detail = "Request timed out. Please try again later."

\* an upper-case "READ TIMED OUT" carried by a typed error was classified 504
C14_Witness ==
    /\ Classified
    /\ exc.type = "NoTranscriptFound"
    /\ exc.msg = "READ TIMED OUT"
    /\ http_exc.status_code = 504

(***************************************************************************)
(* Properties of get_youtube_api.  The expected proxy URLs are written out *)
(* for the one username and password the environments hold.                *)
(***************************************************************************)
\* absent or empty
Missing(v) == ~v.some \/ v.val = ""

ExpectedEndpoint ==
    IF env.BRIGHTDATA_ENDPOINT = Unset THEN "brd.superproxy.io:22225" ELSE "proxy.example:8080"

ExpectedUrl(token) ==
    "http://brd-customer-c1-session-" \o token \o ":pw@" \o ExpectedEndpoint

\* C16: get_youtube_api always returns a client and never raises; the client
\* is direct when the proxy username or password is absent or empty; when both
\* are present its proxy URL carries the username "<base>-session-<token>" with
\* the token generated in this call, the configured password and the configured
\* endpoint (brd.superproxy.io:22225 by default); and it is direct when
\* building the proxy configuration raised.
C16_AlwaysAClient ==
    /\ gpc \in {"call", "returned"}
    /\ gpc = "returned" =>
        /\ client.id = nextId - 1
        /\ client.kind \in {"direct", "proxy"}
        /\ (client.kind = "direct") = ~proxy_config.set
        /\ (Missing(env.BRIGHTDATA_USERNAME) \/ Missing(env.BRIGHTDATA_PASSWORD))
              => client.kind = "direct" /\ session_ids = <<>>
        /\ (~Missing(env.BRIGHTDATA_USERNAME) /\ ~Missing(env.BRIGHTDATA_PASSWORD))
              => /\ Len(session_ids) = nextId - 1
                 /\ Last(session_ids) \in {"3f2a9c1e", "b07d44e2", "9e107d9d"}
                 /\ proxy_error => client.kind = "direct"
                 /\ ~proxy_error =>
                       /\ client.kind = "proxy"
                       /\ proxy_config.http_url = ExpectedUrl(Last(session_ids))
                       /\ proxy_config.https_url = ExpectedUrl(Last(session_ids))

\* a second call returned a proxied client on the default endpoint, under a
\* token other than the first call's
C16_Witness ==
    /\ gpc = "returned"
    /\ Len(session_ids) = 2
    /\ session_ids[1] # session_ids[2]
    /\ env.BRIGHTDATA_ENDPOINT = Unset
    /\ client.kind = "proxy"
    /\ proxy_config.http_url = "http://brd-customer-c1-session-b07d44e2:pw@brd.superproxy.io:22225"

\* the proxy was configured, building it raised, and the call returned a direct client
C16_FallbackWitness ==
    /\ gpc = "returned"
    /\ proxy_error
    /\ client.kind = "direct"

(***************************************************************************)
(* Properties of the endpoints.                                            *)
(***************************************************************************)
TranscriptEndpoint == request.endpoint \in {"segmented", "unsegmented", "available"}

\* the handler body of a transcript endpoint was entered
HandlerEntered == gpc = "returned"

Rejected(text) ==
    /\ rpc \in {"received", "done"}
    /\ ~HandlerEntered
    /\ nextId = 1
    /\ rpc = "done" => response.status_code = 401 /\ response.detail = text

Processed ==
    /\ response.status_code # 401
    /\ rpc = "done" => HandlerEntered

ClassifiedStatuses == {400, 403, 404, 429, 500, 502, 503, 504}

\* C15: in the three transcript endpoints every error raised after
\* authentication, whatever statement raises it, reaches the client as the
\* outcome of handle_transcript_errors on that very error: a status code in
\* {400, 403, 404, 429, 500, 502, 503, 504} with a message.
C15_ErrorsAreClassified ==
    (rpc = "done" /\ TranscriptEndpoint /\ HandlerEntered) =>
        /\ pc = "raised" => raised = outcome.err
        /\ raised = NoError => response.status_code = 200 /\ exc = NoError
        /\ raised # NoError =>
              /\ exc = raised
              /\ response.status_code \in ClassifiedStatuses
              /\ response.status_code = RuleStatus[FirstMatchingRule(raised)]
              /\ response.detail = http_exc.detail
              /\ response.detail # ""

\* the translated transcript's own fetch raised a timeout carried by a typed
\* error, and the client received 504
C15_Witness ==
    /\ rpc = "done"
    /\ request.endpoint = "unsegmented"
    /\ Truthy(request.translate_to)
    /\ pc = "returned"
    /\ raised = SourceError("TranscriptsDisabled", "Connection TIMEOUT", 0)
    /\ response.status_code = 504

\* C17: with a non-empty API token configured, a request to a transcript
\* endpoint without credentials is rejected with 401 "Bearer token required",
\* one with another credential with 401 "Invalid bearer token", and one with
\* the exact token is processed; with no token configured every request is
\* processed; /health is served without authentication.
C17_BearerTokenGate ==
    /\ request.endpoint = "health" =>
          /\ ~HandlerEntered
          /\ rpc = "done" => response.status_code = 200
    /\ (TranscriptEndpoint /\ env.API_TOKEN = SetTo("secret")) =>
          /\ request.credentials = Unset => Rejected("Bearer token required")
          /\ request.credentials = SetTo("wrong") => Rejected("Invalid bearer token")
          /\ request.credentials = SetTo("secret") => Processed
    /\ (TranscriptEndpoint /\ env.API_TOKEN \in {Unset, SetTo("")}) => Processed

\* a request with a wrong credential was rejected, on a deployment with a token
C17_Witness ==
    /\ rpc = "done"
    /\ request.endpoint = "segmented"
    /\ env.API_TOKEN = SetTo("secret")
    /\ request.credentials = SetTo("wrong")
    /\ response.status_code = 401
    /\ response.detail = "Invalid bearer token"

(***************************************************************************)
(* Independence of concurrent requests.                                    *)
(***************************************************************************)
\* the number of timeouts the source answered to a request
RECURSIVE TimeoutsIn(_)
TimeoutsIn(got) ==
    IF Len(got) = 0 THEN 0
    ELSE TimeoutsIn(SubSeq(got, 1, Len(got) - 1))
         + (IF Last(got).err.msg = "Connection TIMEOUT" THEN 1 ELSE 0)

\* the status a request's own answers from the source call for
ExpectedStatus(got) ==
    IF Last(got).st = "ok" THEN 200
    ELSE IF Last(got).err.msg = "Connection TIMEOUT" THEN 504 ELSE 500

\* what a request holds is its own, and follows from its own configuration
\* and the answers it received
OwnState(r) ==
    LET q == reqs[r]
    IN  /\ q.built = (IF q.pc = "start" THEN 0 ELSE 1)
        /\ q.pc # "start" =>
              /\ q.client.id \in q.owned /\ q.api.id \in q.owned
              /\ Cardinality(q.owned) = 1 + q.attempt
              /\ q.attempt = Min(TimeoutsIn(q.received), 2)
              /\ q.attempt = 0 => q.api = q.client
              /\ q.attempt > 0 => q.api.kind = "direct" /\ q.api.id # q.client.id
              /\ q.session_id.some = (env.BRIGHTDATA_USERNAME # Unset)
        /\ q.pc = "done" => q.response.status_code = ExpectedStatus(q.received)

StepsAreLocal ==
    \A r \in Reqs : r # actor' => reqs'[r] = reqs[r]

\* C18: under every interleaving each request builds its own client and
\* session token by one call of get_youtube_api; the clients, attempt counters
\* and degraded clients of two requests are distinct objects; a step of one
\* request leaves every other request's state as it was; and a response
\* follows from the request's own answers from the source.
C18_RequestsIndependent ==
    /\ [](\A r \in Reqs : OwnState(r))
    /\ [](\A a \in Reqs, b \in Reqs : a # b => reqs[a].owned \cap reqs[b].owned = {})
    /\ [][StepsAreLocal]_vars

\* two interleaved requests: r1 was degraded to a direct client by its own
\* timeout and then failed, r2 kept its proxied client and succeeded
C18_Witness ==
    /\ reqs["r1"].pc = "done" /\ reqs["r2"].pc = "done"
    /\ reqs["r1"].client.id = 1 /\ reqs["r2"].client.id = 2 /\ reqs["r1"].api.id = 3
    /\ reqs["r1"].api.kind = "direct" /\ reqs["r1"].response.status_code = 500
    /\ reqs["r2"].api.kind = "proxy" /\ reqs["r2"].response.status_code = 200
    /\ actor = "r1"

(***************************************************************************)
(* Session tokens of successive calls of get_youtube_api.                  *)
(***************************************************************************)
CredentialsConfigured ==
    env.BRIGHTDATA_USERNAME = SetTo("brd-customer-c1") /\ env.BRIGHTDATA_PASSWORD = SetTo("pw")

C22_OscillatesBackToProxy ==
    (/\ Len(calls) >= 3
     /\ calls[1].client.kind = "proxy"
     /\ calls[1].err.msg = "Unable to connect to Proxy"
     /\ calls[2].err.msg = "Connection TIMEOUT")
    => calls[2].client.kind = "direct" /\ calls[3].client.kind = "proxy"

\* C22: the degrade-to-direct step is taken on every retryable failure that
\* leaves an attempt, each time with a new client, and the transport never
\* goes back: only the first attempt can use a proxy-configured client, every
\* later attempt of the same call uses a direct one.
C22_DirectOnceDegraded ==
    /\ \A i \in 2..Len(calls) :
          /\ calls[i].client.kind = "direct"
          /\ calls[i].client.id = i - 1
          /\ calls[i - 1].st = "err"
    /\ \A i \in 1..Len(calls), j \in 1..Len(calls) :
          (i < j /\ calls[i].client.kind = "direct") => calls[j].client.kind = "direct"
    /\ nextId = attempt + 1

\* a proxy failure and then a timeout: the attempts used a proxy client, then
\* two different direct clients
C22_Witness ==
    /\ Len(calls) = 3
    /\ calls[1].client = [kind |-> "proxy", id |-> 0]
    /\ calls[1].err.msg = "Unable to connect to Proxy"
    /\ calls[2].client = [kind |-> "direct", id |-> 1]
    /\ calls[2].err.msg = "Connection TIMEOUT"
    /\ calls[3].client = [kind |-> "direct", id |-> 2]

(***************************************************************************)
(* The calls to the transcript source made for one request.                *)
(***************************************************************************)
\* C23: in the segmented and unsegmented endpoints an error with a retryable
\* message reaches the classifier only out of a retry coordinator that has
\* used up its attempts, the later ones on a direct connection; this includes
\* the fetch of a translated transcript.
C23_RetriedBeforeClassified ==
    (/\ rpc = "done"
     /\ request.endpoint \in {"segmented", "unsegmented"}
     /\ raised # NoError
     /\ HasRetrySignal(raised.msg))
    => /\ pc = "raised"
       /\ outcome.err = raised
       /\ Len(calls) >= 3
       /\ Last(calls).err = raised
       /\ Last(calls).attempt = 2
       /\ calls[Len(calls) - 1].attempt = 1
       /\ calls[Len(calls) - 1].client.kind = "direct" /\ Last(calls).client.kind = "direct"

(***************************************************************************)
(* The metadata of a response and the transcript it carries.               *)
(***************************************************************************)
\* C24: the language_code and is_generated of a response of the segmented or
\* unsegmented endpoint are those of the transcript whose segments or text the
\* response carries, with translate_to, with languages and with neither.
C24_MetadataOfFetchedTranscript ==
    spc = "done" => transcript_metadata = fetched

(***************************************************************************)
(* The clients of the two coordinators of one request.                     *)
(***************************************************************************)
\* C25: in a request of the segmented or unsegmented endpoint without
\* translate_to the first attempt of fetch_with_retry uses the client that
\* get_youtube_api built for the request (a proxied one when the credentials
\* are configured and the proxy could be built), whatever list_with_retry
\* degraded to, and the request makes at most 2 * (2 + 1) = 6 calls to the source.
C25_FetchStartsOnRequestClient ==
    (request.endpoint \in {"segmented", "unsegmented"} /\ request.translate_to = Unset) =>
        /\ Len(calls) <= 6
        /\ \A i \in 1..Len(calls) :
              /\ calls[i].args.method \in {"list", "fetch"}
              /\ (calls[i].args.method = "fetch" /\ calls[i].attempt = 0) =>
                    /\ calls[i].client = client
                    /\ calls[i].client.id = 1
                    /\ (env.BRIGHTDATA_USERNAME = SetTo("brd-customer-c1") /\ ~proxy_error)
                          => calls[i].client.kind = "proxy"
              /\ (calls[i].args.method = "fetch" /\ i > 1 /\ calls[i].attempt = 0) =>
                    calls[i - 1].args.method = "list" /\ calls[i - 1].st = "ok"

\* the listing succeeded on its third attempt, on a direct client; the fetch
\* started again on the request's proxied client and used its three attempts
C25_Witness ==
    /\ rpc = "done"
    /\ request.endpoint = "segmented"
    /\ request.translate_to = Unset
    /\ Len(calls) = 6
    /\ calls[3].args.method = "list" /\ calls[3].client.kind = "direct" /\ calls[3].st = "ok"
    /\ calls[4].args.method = "fetch" /\ calls[4].client = [kind |-> "proxy", id |-> 1]
    /\ calls[6].client.kind = "direct"

(***************************************************************************)
(* Authentication and outbound work.                                       *)
(***************************************************************************)
\* nothing was generated, built, called or classified for the request
NoOutboundWork ==
    /\ session_ids = <<>>
    /\ nextId = 1
    /\ gpc = "idle"
    /\ proxy_config = NoProxyConfig
    /\ calls = <<>>
    /\ pc = "idle"
    /\ exc = NoError
    /\ http_exc = NoHTTPException
    /\ raised = NoError

\* C26: for a request to a transcript endpoint that verify_bearer_token
\* rejects with 401, no session token is generated, no client is built, no
\* call to the transcript source is made and the 401 does not pass through
\* handle_transcript_errors; nothing of the kind happens before the check.
C26_AuthenticationFirst ==
    /\ (rpc = "received" \/ response.status_code = 401) => NoOutboundWork
    /\ response.status_code = 401 =>
          /\ rpc = "done"
          /\ request.endpoint # "health"
          /\ env.API_TOKEN = SetTo("secret")
          /\ request.credentials # SetTo("secret")
          /\ response.detail \in {"Bearer token required", "Invalid bearer token"}

\* a request without credentials was rejected where the proxy is configured
C26_Witness ==
    /\ rpc = "done"
    /\ request.endpoint = "available"
    /\ request.credentials = Unset
    /\ env.BRIGHTDATA_USERNAME = SetTo("brd-customer-c1")
    /\ response.status_code = 401
    /\ response.detail = "Bearer token required"

(***************************************************************************)
(* The coordinators' retryable errors and their classification.            *)
(***************************************************************************)
\* C27: an error that a coordinator treated as retryable and raised once its
\* attempts were used up is classified 502, 503 or 504.
C27_RetryableIsTransient ==
    (/\ Classified
     /\ HasRetrySignal(exc.msg)
     /\ max_retries >= 0
     /\ attempt = max_retries
     /\ Last(calls).err = exc)
    => http_exc.status_code \in {502, 503, 504}

====
